---- MODULE Spec2Model ----
(***************************************************************************)
(* The queue worker of lambda-function/.../DataProcessorFunction/handler.js *)
(* as a state machine: module evaluation, one handler invocation per       *)
(* delivered batch, and inside it one cooperative task per record that     *)
(* runs validate -> predict (retry loop) -> assemble -> store (retry loop).*)
(* A step of the model is what the single JavaScript thread executes       *)
(* between two awaits; the LLM endpoint, the timers and the document store *)
(* are the environment and answer nondeterministically.                    *)
(***************************************************************************)
EXTENDS Integers, Sequences, FiniteSets, TLC

(***************************************************************************)
(* Bounds of the model.                                                    *)
(***************************************************************************)
MaxBatch == 3
MaxInvocations == 2
MaxFaultBatch == 2
MaxRows == 3
MaxRequests == 3
MaxTriggers == 3
MaxEdits == 2

(***************************************************************************)
(* JavaScript values.  A finite number is kept in hundredths (c = 100*x);  *)
(* strings that are inspected character by character are char sequences.   *)
(***************************************************************************)
Scale == 10 * 10

Undefined == [t |-> "undefined"]
Null == [t |-> "null"]
Str(s) == [t |-> "string", v |-> s]
Chars(cs) == [t |-> "string", chars |-> cs]
Num(n) == [t |-> "number", k |-> "finite", c |-> n * Scale]
Frac(c) == [t |-> "number", k |-> "finite", c |-> c]
NaN == [t |-> "number", k |-> "NaN"]
Infinity == [t |-> "number", k |-> "Infinity"]
Obj(r) == [t |-> "object", v |-> r]
Arr == [t |-> "array"]

Get(o, key) == IF key \in DOMAIN o THEN o[key] ELSE Undefined

(***************************************************************************)
(* Character-level helpers and parseFloat, as handler.js uses them on the  *)
(* numeric fields of an LLM reply (String.prototype.replace with a global  *)
(* character class, then parseFloat).                                      *)
(***************************************************************************)
Digits == <<"0", "1", "2", "3", "4", "5", "6", "7", "8", "9">>
IsDigit(ch) == \E i \in 1..10 : Digits[i] = ch
DigitVal(ch) == (CHOOSE i \in 1..10 : Digits[i] = ch) - 1

Pow10(n) == IF n = 0 THEN 1 ELSE IF n = 1 THEN 10 ELSE IF n = 2 THEN 100
            ELSE IF n = 3 THEN 1000 ELSE IF n = 4 THEN 10000 ELSE 100000

StripChars(cs, class) == SelectSeq(cs, LAMBDA ch : ch \notin class)

RECURSIVE DropWhile(_, _)
DropWhile(cs, class) ==
  IF cs # <<>> /\ Head(cs) \in class THEN DropWhile(Tail(cs), class) ELSE cs

RECURSIVE DigitRun(_)
DigitRun(cs) ==
  IF cs # <<>> /\ IsDigit(Head(cs)) THEN <<Head(cs)>> \o DigitRun(Tail(cs)) ELSE <<>>

RECURSIVE DigitsValue(_, _)
DigitsValue(ds, acc) ==
  IF ds = <<>> THEN acc ELSE DigitsValue(Tail(ds), acc * 10 + DigitVal(Head(ds)))

StartsWith(cs, pre) == Len(cs) >= Len(pre) /\ SubSeq(cs, 1, Len(pre)) = pre

InfinityWord == <<"I", "n", "f", "i", "n", "i", "t", "y">>

\* parseFloat reads the longest prefix that is a decimal literal: digits, a
\* fraction, an exponent.  Values are kept in hundredths.
ApplyExponent(mant, neg, ex) ==
  IF ex = 0 THEN Frac(mant)
  ELSE IF neg THEN Frac(mant \div Pow10(ex))
  ELSE IF ex > 308 THEN Infinity
  ELSE Frac(mant * Pow10(ex))

ExponentDigits(mant, neg, ed) ==
  IF ed = <<>> \/ mant = 0 THEN Frac(mant) ELSE ApplyExponent(mant, neg, DigitsValue(ed, 0))

ExponentPart(mant, r) ==
  IF r # <<>> /\ Head(r) \in {"-", "+"}
  THEN ExponentDigits(mant, Head(r) = "-", DigitRun(Tail(r)))
  ELSE ExponentDigits(mant, FALSE, DigitRun(r))

MantissaValue(ip, fp) == DigitsValue(ip, 0) * Scale + DigitsValue(SubSeq(fp \o <<"0", "0">>, 1, 2), 0)

AfterFraction(ip, fp, r) ==
  IF ip = <<>> /\ fp = <<>> THEN NaN
  ELSE IF r # <<>> /\ Head(r) \in {"e", "E"} THEN ExponentPart(MantissaValue(ip, fp), Tail(r))
  ELSE Frac(MantissaValue(ip, fp))

FractionDigits(ip, r, fp) == AfterFraction(ip, fp, SubSeq(r, Len(fp) + 2, Len(r)))

AfterInteger(ip, r) ==
  IF r # <<>> /\ Head(r) = "." THEN FractionDigits(ip, r, DigitRun(Tail(r)))
  ELSE AfterFraction(ip, <<>>, r)

IntegerDigits(cs, ip) == AfterInteger(ip, SubSeq(cs, Len(ip) + 1, Len(cs)))

UnsignedFloat(cs) ==
  IF StartsWith(cs, InfinityWord) THEN Infinity ELSE IntegerDigits(cs, DigitRun(cs))

Negate(x) == IF x.k = "finite" THEN Frac(0 - x.c)
             ELSE IF x.k = "Infinity" THEN [t |-> "number", k |-> "-Infinity"] ELSE x

SignedFloat(s) ==
  IF s # <<>> /\ Head(s) = "-" THEN Negate(UnsignedFloat(Tail(s)))
  ELSE IF s # <<>> /\ Head(s) = "+" THEN UnsignedFloat(Tail(s))
  ELSE UnsignedFloat(s)

ParseFloat(cs) == SignedFloat(DropWhile(cs, {" "}))

(***************************************************************************)
(* zod: z.string(), z.string().min(1), z.number(), .int().positive(),      *)
(* z.string().datetime() (UTC "Z" only: offsets are rejected by default),  *)
(* z.record(z.any()).                                                      *)
(***************************************************************************)
\* The deployment: the names process.env defines among those line 66
\* requires, and the major release of the zod package the import of line 3
\* resolves to (the repository pins none).
VARIABLE deployment

RequiredEnv == {"MONGO_URI", "DB_NAME", "GROQ_API_KEY"}
ZodReleases == {"3", "4"}
Deployed(env, zod) == [env |-> env, zod |-> zod]

ZString(x) == x.t = "string"
ZStringMin1(x) == x.t = "string" /\ x.v # ""
\* z.number(): zod 3 rejects NaN only, zod 4 rejects NaN and the infinities
ZNumber(x) ==
  /\ x.t = "number"
  /\ x.k # "NaN"
  /\ deployment.zod = "4" => x.k = "finite"
\* variant: z.number().int() without .positive()
ZInt(x) == x.t = "number" /\ x.k = "finite" /\ x.c % Scale = 0
ZIntPositive(x) == x.t = "number" /\ x.k = "finite" /\ x.c % Scale = 0 /\ x.c > 0
UtcDatetimes == {"2024-05-01T10:00:00Z", "2024-05-02T10:00:00Z"}
ZDatetime(x) == x.t = "string" /\ x.v \in UtcDatetimes
ZRecord(x) == x.t = "object"

SqsPayloadFields(o) ==
  /\ ZStringMin1(Get(o, "userId"))
  /\ ZStringMin1(Get(o, "spreadsheet_id"))
  /\ ZStringMin1(Get(o, "sheet_range"))
  /\ ZIntPositive(Get(o, "row_index"))
  /\ ZString(Get(o, "project_identifier"))
  /\ ZDatetime(Get(o, "sync_timestamp"))
  /\ ZRecord(Get(o, "input_data"))

\* SqsPayloadSchema.parse(JSON.parse(record.body)) does not throw
SqsPayloadSchema(body) ==
  /\ body.json
  /\ body.val.t = "object"
  /\ SqsPayloadFields(body.val.v)

PredictionKeys == {"Risk", "Issues", "Forecasted_Cost", "Forecasted_Deviation", "Burnout_Risk"}

\* AiPredictionSchema.parse(o) does not throw
AiPredictionSchema(o) ==
  /\ ZString(Get(o, "Risk"))
  /\ ZString(Get(o, "Issues"))
  /\ ZNumber(Get(o, "Forecasted_Cost"))
  /\ ZNumber(Get(o, "Forecasted_Deviation"))
  /\ ZNumber(Get(o, "Burnout_Risk"))

\* what AiPredictionSchema.parse returns: a z.object strips unknown keys
AiPredictionParsed(o) == [key \in PredictionKeys |-> o[key]]

(***************************************************************************)
(* The field repair of getAiPredictionsWithRetry (lines 478-491).          *)
(***************************************************************************)
\* variant: Burnout is copied to Burnout_Risk and not deleted
CopyBurnout(o) ==
  IF "Burnout" \in DOMAIN o /\ "Burnout_Risk" \notin DOMAIN o
  THEN [key \in DOMAIN o \cup {"Burnout_Risk"} |->
          IF key = "Burnout_Risk" THEN o["Burnout"] ELSE o[key]]
  ELSE o

\* variant: Burnout replaces Burnout_Risk whenever the reply has Burnout
OverwriteBurnout(o) ==
  IF "Burnout" \in DOMAIN o
  THEN [key \in (DOMAIN o \ {"Burnout"}) \cup {"Burnout_Risk"} |->
          IF key = "Burnout_Risk" THEN o["Burnout"] ELSE o[key]]
  ELSE o

\* lines 478-481
RenameBurnout(o) ==
  IF "Burnout" \in DOMAIN o /\ "Burnout_Risk" \notin DOMAIN o
  THEN [key \in (DOMAIN o \ {"Burnout"}) \cup {"Burnout_Risk"} |->
          IF key = "Burnout_Risk" THEN o["Burnout"] ELSE o[key]]
  ELSE o

CostClass == {"$", ","}
DeviationClass == {"$", ",", "±"}
BurnoutClass == {"%"}

RepairField(o, key, class) ==
  IF Get(o, key).t = "string"
  THEN [o EXCEPT ![key] = ParseFloat(StripChars(o[key].chars, class))]
  ELSE o

Normalize(o) ==
  RepairField(
    RepairField(
      RepairField(RenameBurnout(o), "Forecasted_Cost", CostClass),
      "Forecasted_Deviation", DeviationClass),
    "Burnout_Risk", BurnoutClass)

(***************************************************************************)
(* Configuration (process.env, lines 56-71).                               *)
(***************************************************************************)
\* MAX_RETRIES = "3" when the environment does not set it (line 62)
DefaultMaxRetries == <<"3">>

\* a JavaScript integer or NaN
Int32(n) == [nan |-> FALSE, n |-> n]
NaNInt == [nan |-> TRUE, n |-> 0]

SignedInt(neg, ds) ==
  IF ds = <<>> THEN NaNInt
  ELSE IF neg THEN Int32(0 - DigitsValue(ds, 0)) ELSE Int32(DigitsValue(ds, 0))

IntPrefix(s) ==
  IF s # <<>> /\ Head(s) \in {"-", "+"} THEN SignedInt(Head(s) = "-", DigitRun(Tail(s)))
  ELSE SignedInt(FALSE, DigitRun(s))

\* parseInt(cs, 10)
ParseInt(cs) == IntPrefix(DropWhile(cs, {" "}))

\* attempt < limit, where limit may be NaN
JsLess(a, limit) == ~limit.nan /\ a < limit.n

\* RETRY_BASE_DELAY = "1.0" when the environment does not set it (line 63)
DefaultBaseDelay == <<"1", ".", "0">>

(***************************************************************************)
(* exponentialBackoffSleep (lines 438-444).  Math.random() is kept in      *)
(* hundredths (0..99), the base delay in hundredths of a second, the delay *)
(* of the timer in milliseconds.                                           *)
(***************************************************************************)
RECURSIVE Pow2(_)
Pow2(n) == IF n = 0 THEN 1 ELSE 2 * Pow2(n - 1)

\* variant: the delay does not grow with the attempt
FlatDelay(base, attempt, random) ==
  IF base.k # "finite" THEN NaN ELSE Frac(base.c * 10 * Scale + random * 5 * Scale)

\* totalDelay = (baseDelay * 2 ** attempt + Math.random() * 0.5) * 1000,
\* in milliseconds
TotalDelay(base, attempt, random) ==
  IF base.k # "finite" THEN NaN
  ELSE Frac(base.c * Pow2(attempt) * 10 * Scale + random * 5 * Scale)

\* setTimeout(resolve, totalDelay): the delay is truncated to whole
\* milliseconds and is 1 when it is below 1, above 2^31 - 1 or not a number
TimerLimit == 2147483647
SetTimeout(d) ==
  IF d.k # "finite" \/ d.c < Scale \/ d.c \div Scale > TimerLimit THEN 1
  ELSE d.c \div Scale

\* the timers set so far by the two retry loops of one record
NoSleeps == [groq |-> <<>>, store |-> <<>>]

(***************************************************************************)
(* Inputs: queue records.  A record is [messageId, body]; a body is either *)
(* text that JSON.parse rejects or the value JSON.parse returns.           *)
(***************************************************************************)
NotJson == [json |-> FALSE]
Json(val) == [json |-> TRUE, val |-> val]

SheetRow(proj) == Obj([Project |-> Str(proj), Vendor |-> Str("Acme"), Notes |-> Str("passthrough")])

Payload(uid, sid, range, row, proj, ts, data) ==
  [userId |-> uid, spreadsheet_id |-> sid, sheet_range |-> range, row_index |-> row,
   project_identifier |-> proj, sync_timestamp |-> ts, input_data |-> data]

Without(o, key) == [f \in DOMAIN o \ {key} |-> o[f]]

T1 == Str("2024-05-01T10:00:00Z")
T2 == Str("2024-05-02T10:00:00Z")
GoodPayload(row, ts) ==
  Payload(Str("u1"), Str("sheetA"), Str("Sheet1!A:Z"), Num(row), Str("Apollo"), ts, SheetRow("Apollo"))

ValidA == Json(Obj(GoodPayload(2, T1)))
ValidA2 == Json(Obj(GoodPayload(2, T2)))
ValidB == Json(Obj(GoodPayload(3, T1)))
\* the row of ValidA in the same sheet, owned by another user
ValidOwner == Json(Obj([GoodPayload(2, T1) EXCEPT !.userId = Str("u2")]))
BadRow == Json(Obj([GoodPayload(2, T1) EXCEPT !.row_index = Num(0 - 1)]))
NoProject == Json(Obj(Without(GoodPayload(2, T1), "project_identifier")))

\* bodies that violate one constraint of the inbound message shape each
ViolatingBodies ==
  { NotJson, BadRow, NoProject,
    Json(Obj([GoodPayload(2, T1) EXCEPT !.spreadsheet_id = Str("")])),
    Json(Obj([GoodPayload(2, T1) EXCEPT !.sheet_range = Str("")])),
    Json(Obj([GoodPayload(2, T1) EXCEPT !.row_index = Num(0)])),
    Json(Obj([GoodPayload(2, T1) EXCEPT !.row_index = Frac(150)])),
    Json(Obj([GoodPayload(2, T1) EXCEPT !.row_index = Str("2")])),
    Json(Obj([GoodPayload(2, T1) EXCEPT !.sync_timestamp = Str("yesterday")])),
    Json(Obj([GoodPayload(2, T1) EXCEPT !.input_data = Arr])),
    Json(Obj([GoodPayload(2, T1) EXCEPT !.input_data = Str("row")])),
    Json(Obj(Without(GoodPayload(2, T1), "input_data"))) }

\* further bodies that SqsPayloadSchema rejects
OtherRejectedBodies ==
  { Json(Null),
    Json(Obj(Without(GoodPayload(2, T1), "userId"))),
    Json(Obj([GoodPayload(2, T1) EXCEPT !.project_identifier = Num(7)])),
    Json(Obj([GoodPayload(2, T1) EXCEPT !.sync_timestamp = Str("2024-05-01T10:00:00+05:30")])) }

\* the valid message of sheet row i + 1 (the sheet reader numbers rows from 2)
ValidRow(i) == Json(Obj(GoodPayload(i + 1, T1)))

\* batches of n records in which record i is either the valid message of
\* its own row or the message with row_index -1
SlotBatches(n) ==
  {q \in [1..n -> {"valid", "badRow"}] : TRUE}
MakeBatch(q) == [i \in DOMAIN q |-> IF q[i] = "valid" THEN ValidRow(i) ELSE BadRow]

\* event.Records: record i of the batch has messageId i
Batches ==
  {<<b>> : b \in ViolatingBodies \cup OtherRejectedBodies \cup {ValidA2}}
    \cup {<<ValidA, ValidA2>>, <<ValidA, ValidA>>}
    \cup UNION {{MakeBatch(q) : q \in SlotBatches(n)} : n \in 1..MaxBatch}

(***************************************************************************)
(* Environment answers.  An LLM reply is a transport error or the content  *)
(* of completion.choices[0].message; a store reply says whether the server *)
(* applied the write and what the driver reported.                         *)
(***************************************************************************)
GroqError(msg) == [kind |-> "error", msg |-> msg]
GroqContent(body) == [kind |-> "content", body |-> body]

Prediction(risk, issues, cost, dev, burnout) ==
  [Risk |-> risk, Issues |-> issues, Forecasted_Cost |-> cost,
   Forecasted_Deviation |-> dev, Burnout_Risk |-> burnout]

PlainReply == Prediction(Str("Tech Debt"), Str("Overtime reported"), Num(12345), Num(0 - 1200), Num(70))
OtherReply == Prediction(Str("Scope Creep"), Str("Budget cut"), Num(500), Num(20), Num(10))
FormattedReply ==
  Prediction(Str("Vendor Delay"), Str("Escalation pending"),
             Chars(<<"$", "1", "2", ",", "3", "4", "5">>),
             Chars(<<"±", "$", "1", ",", "2", "0", "0">>),
             Chars(<<"7", "0", "%">>))
AliasReply ==
  [Risk |-> Str("Tech Debt"), Issues |-> Str("Budget cut"), Forecasted_Cost |-> Num(900),
   Forecasted_Deviation |-> Num(0), Burnout |-> Chars(<<"5", "5", "%">>)]
MissingFieldReply == Without(PlainReply, "Issues")
BadNumberReply == [PlainReply EXCEPT !.Forecasted_Cost = Chars(<<"n", "/", "a">>)]

\* the values the prompt asks for (lines 137-138) and two it does not
PromptRisks == {"Resource Constraints", "Vendor Delay", "Scope Creep", "Tech Debt"}
PromptIssues == {"Budget cut", "Requirement gap", "Overtime reported", "Escalation pending"}
Labels == {<<"Tech Debt", "Budget cut">>, <<"Banana", "Budget cut">>, <<"Tech Debt", "Lunch">>}

\* the forms in which a reply carries a numeric field
NumericForms ==
  { Num(70),
    Chars(<<"$", "1", "2", ",", "3", "4", "5">>),
    Chars(<<"±", "$", "1", ",", "2", "0", "0">>),
    Chars(<<"7", "0", "%">>),
    Chars(<<"I", "n", "f", "i", "n", "i", "t", "y">>),
    Chars(<<"n", "/", "a">>) }
BurnoutForms == NumericForms \cup {Num(150), Chars(<<"5", "5", "%">>)}

\* a reply that names the burnout field Burnout_Risk, Burnout, or carries both
ReplyObject(labels, cost, dev, burnout, naming) ==
  IF naming = "Burnout_Risk"
  THEN [Risk |-> Str(labels[1]), Issues |-> Str(labels[2]), Forecasted_Cost |-> cost,
        Forecasted_Deviation |-> dev, Burnout_Risk |-> burnout]
  ELSE IF naming = "Burnout"
  THEN [Risk |-> Str(labels[1]), Issues |-> Str(labels[2]), Forecasted_Cost |-> cost,
        Forecasted_Deviation |-> dev, Burnout |-> burnout]
  ELSE [Risk |-> Str(labels[1]), Issues |-> Str(labels[2]), Forecasted_Cost |-> cost,
        Forecasted_Deviation |-> dev, Burnout_Risk |-> burnout,
        Burnout |-> Chars(<<"5", "5", "%">>)]

RepairReplies ==
  { GroqContent(Json(Obj(ReplyObject(l, c, d, b, n)))) :
      l \in Labels, c \in NumericForms, d \in NumericForms, b \in BurnoutForms,
      n \in {"Burnout_Risk", "Burnout", "both"} }

CoreGroqReplies == {GroqError("ETIMEDOUT"), GroqContent(Json(Obj(PlainReply)))}

AllGroqReplies ==
  { GroqError("ETIMEDOUT"), GroqError("429 rate limit"),
    GroqContent(NotJson), GroqContent(Json(Null)), GroqContent(Json(Arr)),
    GroqContent(Json(Obj(PlainReply))), GroqContent(Json(Obj(OtherReply))),
    GroqContent(Json(Obj(FormattedReply))), GroqContent(Json(Obj(AliasReply))),
    GroqContent(Json(Obj(MissingFieldReply))), GroqContent(Json(Obj(BadNumberReply))) }

Ok(val) == [ok |-> TRUE, val |-> val]
Thrown(msg) == [ok |-> FALSE, msg |-> msg]

\* variant: the repaired object is returned without AiPredictionSchema.parse
Unvalidated(n) == Ok(n)
Validated(n) == IF AiPredictionSchema(n) THEN Ok(AiPredictionParsed(n)) ELSE Thrown("ZodError")

\* the body of the try block of one attempt, from the reply on (lines 473-496)
AttemptResult(r) ==
  IF r.kind = "error" THEN Thrown(r.msg)
  ELSE IF ~r.body.json THEN Thrown("SyntaxError")
  ELSE IF r.body.val.t = "null" THEN Thrown("TypeError")
  ELSE IF r.body.val.t # "object" THEN Thrown("ZodError")
  ELSE Validated(Normalize(r.body.val.v))

\* what the store does with one updateOne and what the driver reports:
\* whether the write is applied, the reply, and whether the upsert looked
\* for a match before a concurrent upsert of the same key inserted its
\* document (the collection has no unique index on the key)
StoreOutcome(applied, reply) == [applied |-> applied, reply |-> reply, raced |-> FALSE]
RacedOutcome(reply) == [applied |-> TRUE, reply |-> reply, raced |-> TRUE]
CoreStoreOutcomes == {StoreOutcome(TRUE, "ack"), StoreOutcome(FALSE, "error"), RacedOutcome("ack")}
AllStoreOutcomes ==
  CoreStoreOutcomes \cup {StoreOutcome(TRUE, "error"), StoreOutcome(TRUE, "unack"),
                          StoreOutcome(FALSE, "unack")}

\* variant: the reply is not checked for result.acknowledged
StoreUnchecked(o) == IF o.reply = "error" THEN Thrown("MongoNetworkError") ELSE Ok(TRUE)

\* what the try block of one store attempt does with the reply (lines 524-531)
StoreAttemptResult(o) ==
  IF o.reply = "ack" THEN Ok(TRUE)
  ELSE IF o.reply = "unack" THEN Thrown("MongoDB operation not acknowledged")
  ELSE Thrown("MongoNetworkError")


(***************************************************************************)
(* The collection.  collection.updateOne(key, {$set: doc}, {upsert: true}) *)
(* is one atomic operation of the store.                                   *)
(***************************************************************************)
Matches(d, key) == \A f \in DOMAIN key : f \in DOMAIN d /\ d[f] = key[f]
\* variant: a filter that selects no document
NoMatch(coll, key) == {}
\* variant: the filter selects every document
MatchingAny(coll, key) == coll
Matching(coll, key) == {d \in coll : Matches(d, key)}
SetFields(old, doc) ==
  [f \in DOMAIN old \cup DOMAIN doc |-> IF f \in DOMAIN doc THEN doc[f] ELSE old[f]]
First(ds) == CHOOSE d \in ds : \A e \in ds : d["_id"] <= e["_id"]

\* variant: the matched document is removed and not written back
RemoveMatched(coll, old, doc) == coll \ {old}

UpdateMatched(coll, old, doc) == (coll \ {old}) \cup {SetFields(old, doc)}

\* the insert of an upsert: the fields of the filter and of $set, and an _id
Inserted(coll, id, key, doc) ==
  coll \cup {SetFields(SetFields([x \in {"_id"} |-> id], key), doc)}

UpdateOneUpsert(coll, id, key, doc) ==
  IF Matching(coll, key) # {}
  THEN UpdateMatched(coll, First(Matching(coll, key)), doc)
  ELSE Inserted(coll, id, key, doc)

(***************************************************************************)
(* State.                                                                  *)
(*  hostGlobals  the names the host's global object binds, among the two   *)
(*               free identifiers of handler.js (Id, line 27, and          *)
(*               onrejectionhandled, lines 561 and 574); a bound name is   *)
(*               bound to one and the same ObjectId constructor            *)
(*  phase        unloaded, loadFailed, configMissing, idle, pinging,        *)
(*               running, returned                                         *)
(*  invocation   number of handler invocations started (also the reading   *)
(*               of the clock during that invocation)                      *)
(*  records      event.Records of the current invocation                   *)
(*  task         per record, the position of its processSingleRecord       *)
(*  collection   the documents of the collection                           *)
(*  MAX_RETRIES  the environment's setting, after the default of line 62   *)
(*  groqCalls, storeCalls   requests sent per record in this invocation    *)
(*  lastGroq     per record, the last LLM reply received                   *)
(*  written      per record, whether the store applied a write of it in    *)
(*               this invocation                                           *)
(*  validations  SqsPayloadSchema.parse runs per record                    *)
(*  pingOk       the answer of the ping of this invocation                 *)
(*  result       batchItemFailures (message ids) once returned             *)
(*  lastStore    per record, the driver's answer to its last updateOne     *)
(*               (none, ack, unack, error)                                 *)
(*  deployment   see above: the configuration and the zod release          *)
(*  unmatched    per record, whether the filter of its updateOne matched   *)
(*               no document when the request was sent                     *)
(*  RETRY_BASE_DELAY  the environment's setting, after the default of    *)
(*               line 63                                                   *)
(*  sleeps       per record, the delays in milliseconds of the timers that *)
(*               its call of getAiPredictionsWithRetry and its call of     *)
(*               storeDocumentWithRetry have set, in order                 *)
(*  caught       per record, the kinds of error that the catch block of    *)
(*               its call of getAiPredictionsWithRetry has caught so far   *)
(*               (transport, parse, schema, type)                          *)
(*  db           whether the module's variable db (line 75) holds the     *)
(*               database handle that initializeMongoDB assigns (line 95) *)
(*  harness      for the direct second call of storeDocumentWithRetry:     *)
(*               how many calls were made, whether the first returned      *)
(*               true, and the collection as the first call left it        *)
(***************************************************************************)
VARIABLES hostGlobals, MAX_RETRIES, phase, invocation, records, task, collection,
          groqCalls, storeCalls, lastGroq, written, validations, pingOk, result, harness,
          unmatched, lastStore, RETRY_BASE_DELAY, sleeps, caught, db

workerVars == <<hostGlobals, MAX_RETRIES, phase, invocation, records, task, collection,
                groqCalls, storeCalls, lastGroq, written, validations, pingOk, result, harness,
                unmatched, lastStore, deployment, RETRY_BASE_DELAY, sleeps, caught, db>>

(***************************************************************************)
(* State of the programs in front of the queue: the web backend that      *)
(* imports a sheet and forwards updates, and the script bound to the       *)
(* sheet.                                                                  *)
(*  rows         sheetResponse.data.values of the import: the header row   *)
(*               and the data rows, each a sequence of cells               *)
(*  formattedData   the messages the import has built from rows            *)
(*  BULK_IMPORT_QUEUE_URL   the environment's setting, or undefined        *)
(*  validatesRows   whether sendBulkImportMessages parses each row with    *)
(*               bulkImportRowSchema (part_002) or not (the sqs-service    *)
(*               in middleware/auth.js)                                    *)
(*  importPc     idle, sending, done (the import returned), threw          *)
(*  cursor       the position of the for-of loop in dataArray              *)
(*  attempted    the rows the loop has handled, with what happened         *)
(*               (sent, invalid, failed), in order                         *)
(*  bulkQueue    the message bodies the bulk queue has accepted            *)
(*  UPDATE_QUEUE_URL   the environment's setting, or undefined             *)
(*  updateRequest   req.body of the request POST /api/update being handled *)
(*               or answered last                                          *)
(*  apiPc        idle, or sending while sqsClient.send is awaited          *)
(*  response     the status of the last answer (0 before the first)        *)
(*  answered     the number of requests answered                           *)
(*  lastSend     what became of the send of the last request (none, sent,  *)
(*               failed)                                                   *)
(*  updateQueue  the message bodies the update queue has accepted          *)
(***************************************************************************)
VARIABLES rows, formattedData, BULK_IMPORT_QUEUE_URL, validatesRows, importPc, cursor,
          attempted, bulkQueue

importVars == <<rows, formattedData, BULK_IMPORT_QUEUE_URL, validatesRows, importPc, cursor,
                attempted, bulkQueue>>

ImportIdle ==
  /\ rows = <<>>
  /\ formattedData = <<>>
  /\ BULK_IMPORT_QUEUE_URL = Undefined
  /\ validatesRows = FALSE
  /\ importPc = "idle"
  /\ cursor = 0
  /\ attempted = <<>>
  /\ bulkQueue = <<>>

VARIABLES UPDATE_QUEUE_URL, updateRequest, apiPc, response, answered, lastSend, updateQueue

apiVars == <<UPDATE_QUEUE_URL, updateRequest, apiPc, response, answered, lastSend, updateQueue>>

ApiIdle ==
  /\ UPDATE_QUEUE_URL = Undefined
  /\ updateRequest = Null
  /\ apiPc = "idle"
  /\ response = 0
  /\ answered = 0
  /\ lastSend = "none"
  /\ updateQueue = <<>>

(***************************************************************************)
(* The Apps Script project bound to the sheet (scripts/script_content.js,  *)
(* unnamed/part_010, unnamed/part_011).  Runs of its functions do not      *)
(* overlap, so one action is one run.                                      *)
(*  triggers    ScriptApp.getProjectTriggers(): the handler function of    *)
(*              each installed trigger, in creation order                  *)
(*  properties  PropertiesService.getScriptProperties(): property name ->  *)
(*              its string, or Null when the property is not set           *)
(*  lastRun     the function that ran last, whether it ended without an    *)
(*              error, and how many triggers it deleted and created        *)
(*  requests    the row_index of each update request UrlFetchApp.fetch     *)
(*              has been called with, in call order                        *)
(*  edited      the sheet, the range of the last edit event, the number    *)
(*              of requests issued before it and the number of events      *)
(***************************************************************************)
VARIABLES triggers, properties, lastRun, requests, edited

scriptVars == <<triggers, properties, lastRun, requests, edited>>

PropertyNames == {"API_SECRET_TOKEN", "API_BASE_URL", "PLATFORM_USER_ID", "CONNECTION_ID",
                  "SYNC_ACTIVATED", "PENDING_ACTIVATION", "ACTIVATION_TIMESTAMP",
                  "ACTIVATION_REQUESTED_AT", "DELAYED_ACTIVATION_ERROR"}

NoProperties == [name \in PropertyNames |-> Null]
NoRun == [fn |-> "none", ok |-> TRUE, deleted |-> 0, created |-> 0]
NoEdit == [startRow |-> 0, numRows |-> 0, before |-> 0, events |-> 0, sheet |-> <<>>]

ScriptIdle ==
  /\ triggers = <<>>
  /\ properties = NoProperties
  /\ lastRun = NoRun
  /\ requests = <<>>
  /\ edited = NoEdit

(***************************************************************************)
(* One call of retryGoogleAPICall (unnamed/part_003 53-74, part_006 38-59).*)
(*  retryCall   where the call is (idle, calling, waiting, returned,       *)
(*              threw), its maxRetries and baseDelayMs, and the loop       *)
(*              variable i                                                 *)
(*  apiCalls    the number of times apiCall() has been called              *)
(*  apiErrors   the errors apiCall() has thrown, in order                  *)
(*  apiWaits    the delays (ms) the loop has waited, in order              *)
(*  apiSettled  what the call returned or threw (Null while it runs)       *)
(***************************************************************************)
VARIABLES retryCall, apiCalls, apiErrors, apiWaits, apiSettled

retryVars == <<retryCall, apiCalls, apiErrors, apiWaits, apiSettled>>

RetryIdle ==
  /\ retryCall = [pc |-> "idle", maxRetries |-> 0, baseDelayMs |-> 0, i |-> 0]
  /\ apiCalls = 0
  /\ apiErrors = <<>>
  /\ apiWaits = <<>>
  /\ apiSettled = Null

frontVars == <<importVars, apiVars, scriptVars, retryVars>>

\* the variables that the import, the update endpoint, the script, the
\* retried call leave alone
notImport == <<workerVars, apiVars, scriptVars, retryVars>>
notApi == <<workerVars, importVars, scriptVars, retryVars>>
notScript == <<workerVars, importVars, apiVars, retryVars>>
notRetry == <<workerVars, importVars, apiVars, scriptVars>>

FrontIdle == ImportIdle /\ ApiIdle /\ ScriptIdle /\ RetryIdle

vars == <<workerVars, frontVars>>

\* const maxRetries = parseInt(MAX_RETRIES, 10) (line 70)
maxRetries == ParseInt(MAX_RETRIES)

\* const retryBaseDelay = parseFloat(RETRY_BASE_DELAY) (line 71)
retryBaseDelay == ParseFloat(RETRY_BASE_DELAY)

\* the timer that exponentialBackoffSleep(attempt) sets when Math.random()
\* returns random (lines 438-444)
ExponentialBackoffSleep(attempt, random) ==
  SetTimeout(TotalDelay(retryBaseDelay, attempt, random))

\* the values of Math.random(), in hundredths
Randoms == {0, 50, 99}

\* variant: the body of the loop runs once before the condition is looked at
LoopOnce(attempt) == attempt = 0 \/ JsLess(attempt, maxRetries)

\* the loop condition of both retry loops (lines 458 and 512)
LoopEntered(attempt) == JsLess(attempt, maxRetries)

\* variant: the retry decision compares with maxRetries instead of maxRetries - 1
RetryAlways(attempt) == JsLess(attempt, maxRetries)

\* the retry decision of both catch blocks (lines 499 and 536)
RetryAllowed(attempt) == JsLess(attempt, [maxRetries EXCEPT !.n = @ - 1])

Ids == 1..Len(records)
FreeIdentifiers == {"Id", "onrejectionhandled"}

ObjectId(uid) == [t |-> "ObjectId", hex |-> uid.v]
Now == [t |-> "string", v |-> "2024-05-02T10:00:00Z", tick |-> invocation]

\* variant: the error leaves processSingleRecord and its promise is rejected
Escaped(stage, msg, last) ==
  [pc |-> "rejected", attempt |-> 0, pred |-> Null, doc |-> Null, key |-> Null,
   err |-> [stage |-> stage, msg |-> msg, last |-> last]]

\* an error thrown inside the try of processSingleRecord is caught and
\* becomes the result {success: false, error} (lines 581-585)
Failed(stage, msg, last) ==
  [pc |-> "failed", attempt |-> 0, pred |-> Null, doc |-> Null, key |-> Null,
   err |-> [stage |-> stage, msg |-> msg, last |-> last]]
Running(pc, attempt, pred, doc, key) ==
  [pc |-> pc, attempt |-> attempt, pred |-> pred, doc |-> doc, key |-> key, err |-> Null]

\* the promise of processSingleRecord has settled: resolved with success,
\* resolved with a failure (the catch of lines 581-585), or rejected
Terminal(t) == t.pc \in {"done", "failed", "rejected"}

\* the object SqsPayloadSchema.parse returns (a z.object strips unknown keys)
SqsPayload(body) ==
  [f \in {"userId", "spreadsheet_id", "sheet_range", "row_index", "project_identifier",
          "sync_timestamp", "input_data"} |-> body.val.v[f]]

\* the columns MongoDbSchema.source_data names (lines 32-49)
KnownColumns ==
  {"Program", "Portfolio", "Project Manager", "Vendor", "Contract ID", "Contract Start Date",
   "Contract End Date", "Contract Ceiling Price", "Contract Target Price",
   "Actual Contract Spend", "Expiring Soon", "Resource Name", "Role", "Allocated Hours",
   "Actual Hours", "Planned Cost", "Actual Cost", "Update Date"}

\* variant: source_data keeps the named columns only
DocumentOfKnownColumns(p, pred) ==
  [userId |-> ObjectId(p.userId), spreadsheet_id |-> p.spreadsheet_id,
   row_index |-> p.row_index, project_identifier |-> p.project_identifier,
   sync_timestamp |-> p.sync_timestamp,
   source_data |-> Obj([c \in DOMAIN p.input_data.v \cap KnownColumns |-> p.input_data.v[c]]),
   ai_predictions |-> pred, last_processed_at |-> Now]

\* documentToStore (lines 560-569)
DocumentToStore(p, pred) ==
  [userId |-> ObjectId(p.userId), spreadsheet_id |-> p.spreadsheet_id,
   row_index |-> p.row_index, project_identifier |-> p.project_identifier,
   sync_timestamp |-> p.sync_timestamp, source_data |-> p.input_data,
   ai_predictions |-> pred, last_processed_at |-> Now]

\* variant: the key is the spreadsheet id and the row index
UpsertKeyOfRow(p) == [spreadsheet_id |-> p.spreadsheet_id, row_index |-> p.row_index]

\* upsertKey (line 574)
UpsertKey(p) ==
  [spreadsheet_id |-> p.spreadsheet_id, row_index |-> p.row_index, userId |-> ObjectId(p.userId)]

\* MongoDbSchema.parse(documentToStore) does not throw (lines 26-54, 571)
MongoDbSchema(d) ==
  /\ d.userId.t = "ObjectId"
  /\ ZString(d.spreadsheet_id)
  /\ ZNumber(d.row_index)
  /\ ZString(d.project_identifier)
  /\ ZDatetime(d.sync_timestamp)
  /\ d.source_data.t = "object"
  /\ d.ai_predictions.t = "object" /\ AiPredictionSchema(d.ai_predictions.v)
  /\ ZDatetime(d.last_processed_at)

\* what MongoDbSchema.parse returns: source_data is a passthrough object,
\* ai_predictions is parsed by AiPredictionSchema
ValidatedDocument(d) ==
  [d EXCEPT !.ai_predictions = Obj(AiPredictionParsed(d.ai_predictions.v))]

\* variant: the body is parsed as JSON but not by SqsPayloadSchema
StartUnvalidated(body) ==
  IF ~body.json THEN Failed("validation", "SyntaxError", "SyntaxError")
  ELSE IF LoopEntered(0) THEN Running("groq", 0, Null, Null, Null)
  ELSE Failed("prediction", "Received null predictions from AI service.", "null")

\* processSingleRecord from its start to its first await (lines 547-557, 458-462)
StartRecord(body) ==
  IF ~body.json THEN Failed("validation", "SyntaxError", "SyntaxError")
  ELSE IF ~SqsPayloadSchema(body) THEN Failed("validation", "ZodError", "ZodError")
  ELSE IF LoopEntered(0) THEN Running("groq", 0, Null, Null, Null)
  ELSE Failed("prediction", "Received null predictions from AI service.", "null")

FailedWith(stage, msg, last, pred) == [Failed(stage, msg, last) EXCEPT !.pred = pred]

StoreFirst(p, pred, d) ==
  IF ~MongoDbSchema(d) THEN FailedWith("assembly", "ZodError", "ZodError", pred)
  ELSE IF LoopEntered(0) THEN Running("store", 0, pred, ValidatedDocument(d), UpsertKey(p))
  ELSE FailedWith("persistence", "Failed to store document in MongoDB after retries", "false", pred)

Assemble(p, pred) == StoreFirst(p, pred, DocumentToStore(p, pred))

\* processSingleRecord from the return of getAiPredictionsWithRetry to the
\* first updateOne (lines 558-575, 510-518)
AfterPrediction(body, pred) ==
  IF "onrejectionhandled" \notin hostGlobals
  THEN FailedWith("assembly", "ReferenceError: onrejectionhandled is not defined",
                  "ReferenceError", Obj(pred))
  ELSE Assemble(SqsPayload(body), Obj(pred))

WorkerInit(settings, delays, deployments) ==
  /\ hostGlobals \in SUBSET FreeIdentifiers
  /\ deployment \in deployments
  /\ MAX_RETRIES \in settings
  /\ RETRY_BASE_DELAY \in delays
  /\ sleeps = <<>>
  /\ caught = <<>>
  /\ db = FALSE
  /\ phase = "unloaded"
  /\ invocation = 0
  /\ records = <<>>
  /\ task = <<>>
  /\ collection = {}
  /\ groqCalls = <<>>
  /\ storeCalls = <<>>
  /\ lastGroq = <<>>
  /\ lastStore = <<>>
  /\ written = <<>>
  /\ validations = <<>>
  /\ pingOk = FALSE
  /\ result = <<>>
  /\ harness = [calls |-> 1, firstOk |-> FALSE, snapshot |-> {}]
  /\ unmatched = <<>>

InitConfigured(settings, delays, deployments) ==
  WorkerInit(settings, delays, deployments) /\ FrontIdle

InitDeployed(settings, deployments) ==
  InitConfigured(settings, {DefaultBaseDelay}, deployments)

InitWith(settings) == InitDeployed(settings, {Deployed(RequiredEnv, "3")})

\* evaluation of the module (lines 1-75): line 27 reads the identifier Id,
\* line 66 throws when a required name is missing
LoadOutcome ==
  IF "Id" \notin hostGlobals THEN "loadFailed"
  ELSE IF deployment.env # RequiredEnv THEN "configMissing"
  ELSE "idle"

Load ==
  /\ phase = "unloaded"
  /\ phase' = LoadOutcome
  /\ UNCHANGED <<frontVars, hostGlobals, deployment, db, MAX_RETRIES, RETRY_BASE_DELAY, caught, sleeps, lastStore, harness, unmatched, invocation, records, task, collection, groqCalls, storeCalls,
                 lastGroq, written, validations, pingOk, result>>

\* variant: the catch of the handler reports no record
NoRecord(b) == <<>>

\* event.Records.map(r => ({ itemIdentifier: r.messageId })) (line 612)
EveryRecord(b) == [i \in 1..Len(b) |-> i]

\* handler(event) when initializeMongoDB throws: db is not assigned yet and
\* mongoClient.db(DB_NAME) throws (line 95); the error is logged and thrown
\* again (lines 100-103) into the catch of the handler, which returns every
\* record (lines 610-613)
InitializeFailed(b) ==
  /\ phase \in {"idle", "returned"}
  /\ invocation < MaxInvocations
  /\ ~db
  /\ invocation' = invocation + 1
  /\ records' = b
  /\ task' = <<>>
  /\ groqCalls' = [i \in 1..Len(b) |-> 0]
  /\ storeCalls' = [i \in 1..Len(b) |-> 0]
  /\ lastGroq' = [i \in 1..Len(b) |-> Null]
  /\ lastStore' = [i \in 1..Len(b) |-> "none"]
  /\ written' = [i \in 1..Len(b) |-> FALSE]
  /\ validations' = [i \in 1..Len(b) |-> 0]
  /\ pingOk' = FALSE
  /\ result' = EveryRecord(b)
  /\ phase' = "returned"
  /\ harness' = [calls |-> 1, firstOk |-> FALSE, snapshot |-> {}]
  /\ unmatched' = [i \in 1..Len(b) |-> FALSE]
  /\ sleeps' = [i \in 1..Len(b) |-> NoSleeps]
  /\ caught' = [i \in 1..Len(b) |-> {}]
  /\ UNCHANGED <<frontVars, hostGlobals, deployment, db, MAX_RETRIES, RETRY_BASE_DELAY, collection>>

\* handler(event) up to the await of the ping (lines 588-594, 77-104, 446-448)
Start(b) ==
  /\ invocation' = invocation + 1
  /\ records' = b
  /\ task' = <<>>
  /\ groqCalls' = [i \in 1..Len(b) |-> 0]
  /\ storeCalls' = [i \in 1..Len(b) |-> 0]
  /\ lastGroq' = [i \in 1..Len(b) |-> Null]
  /\ lastStore' = [i \in 1..Len(b) |-> "none"]
  /\ written' = [i \in 1..Len(b) |-> FALSE]
  /\ validations' = [i \in 1..Len(b) |-> 0]
  /\ pingOk' = FALSE
  /\ result' = <<>>
  /\ phase' = "pinging"
  /\ harness' = [calls |-> 1, firstOk |-> FALSE, snapshot |-> {}]
  /\ unmatched' = [i \in 1..Len(b) |-> FALSE]
  /\ sleeps' = [i \in 1..Len(b) |-> NoSleeps]
  /\ caught' = [i \in 1..Len(b) |-> {}]
  /\ db' = TRUE
  /\ UNCHANGED <<frontVars, hostGlobals, deployment, MAX_RETRIES, RETRY_BASE_DELAY, collection>>

Invoke(b) == phase = "idle" /\ Start(b)

\* a later invocation of the warm function: a new batch or a redelivery
Reinvoke(b) == phase = "returned" /\ invocation < MaxInvocations /\ Start(b)

\* variant: the answer of the ping is not looked at
PingIgnored ==
  /\ phase = "pinging"
  /\ task' = [i \in Ids |-> StartRecord(records[i])]
  /\ validations' = [i \in Ids |-> IF records[i].json THEN 1 ELSE 0]
  /\ groqCalls' = [i \in Ids |-> IF StartRecord(records[i]).pc = "groq" THEN 1 ELSE 0]
  /\ phase' = "running"
  /\ UNCHANGED <<frontVars, hostGlobals, deployment, db, MAX_RETRIES, RETRY_BASE_DELAY, caught, sleeps, lastStore, harness, unmatched, invocation, records, collection,
                 storeCalls, lastGroq, written, pingOk, result>>

\* the ping failed: every record is reported failed (lines 595-598)
PingFailed ==
  /\ phase = "pinging"
  /\ result' = [i \in 1..Len(records) |-> i]
  /\ phase' = "returned"
  /\ UNCHANGED <<frontVars, hostGlobals, deployment, db, MAX_RETRIES, RETRY_BASE_DELAY, caught, sleeps, lastStore, harness, unmatched, invocation, records, task, collection, groqCalls, storeCalls,
                 lastGroq, written, validations, pingOk>>

\* the ping succeeded: event.Records.map(processSingleRecord) runs every
\* record up to its first await (line 600)
PingSucceeded ==
  /\ phase = "pinging"
  /\ pingOk' = TRUE
  /\ task' = [i \in Ids |-> StartRecord(records[i])]
  /\ validations' = [i \in Ids |-> IF records[i].json THEN 1 ELSE 0]
  /\ groqCalls' = [i \in Ids |-> IF StartRecord(records[i]).pc = "groq" THEN 1 ELSE 0]
  /\ phase' = "running"
  /\ UNCHANGED <<frontVars, hostGlobals, deployment, db, MAX_RETRIES, RETRY_BASE_DELAY, caught, sleeps, lastStore, harness, unmatched, invocation, records, collection, storeCalls,
                 lastGroq, written, result>>

\* variant: the catch block starts the next attempt without waiting
GroqCatchNoWait(t, msg) ==
  IF RetryAllowed(t.attempt) THEN [t EXCEPT !.pc = "groq", !.attempt = @ + 1]
  ELSE Failed("prediction", "All Groq API attempts failed.", msg)

\* the catch block of getAiPredictionsWithRetry (lines 497-504)
GroqCatch(t, msg) ==
  IF RetryAllowed(t.attempt) THEN [t EXCEPT !.pc = "groqSleep"]
  ELSE Failed("prediction", "All Groq API attempts failed.", msg)

\* variant: a reply that fails AiPredictionSchema is not tried again
GroqSettledOnSchema(t, body, res) ==
  IF res.ok THEN AfterPrediction(body, res.val)
  ELSE IF res.msg = "ZodError" THEN Failed("prediction", "All Groq API attempts failed.", res.msg)
  ELSE GroqCatch(t, res.msg)

GroqSettled(t, body, res) ==
  IF res.ok THEN AfterPrediction(body, res.val) ELSE GroqCatch(t, res.msg)

\* the request updateOne(upsertKey, ...) leaves for the store (line 518)
Sent(i, nxt) ==
  [unmatched EXCEPT ![i] = IF nxt.pc = "store" THEN Matching(collection, nxt.key) = {} ELSE @]

GroqContinue(i, nxt) ==
  /\ task' = [task EXCEPT ![i] = nxt]
  /\ storeCalls' = [storeCalls EXCEPT ![i] = IF nxt.pc = "store" THEN @ + 1 ELSE @]
  /\ unmatched' = Sent(i, nxt)

\* the kind of the error that an attempt throws: the request failed, the
\* content is not JSON, the object fails AiPredictionSchema, or the
\* content is the JSON null (a TypeError at line 478)
KindOf(msg) ==
  IF msg = "SyntaxError" THEN "parse"
  ELSE IF msg = "ZodError" THEN "schema"
  ELSE IF msg = "TypeError" THEN "type"
  ELSE "transport"

\* the kinds caught once the attempt with result res is over (line 497)
Caught(kinds, res) == IF res.ok THEN kinds ELSE kinds \cup {KindOf(res.msg)}

\* the timers of record i after a step of its predict call that leaves it at nxt
GroqSlept(i, nxt, random) ==
  [sleeps EXCEPT ![i].groq =
     IF nxt.pc = "groqSleep" THEN Append(@, ExponentialBackoffSleep(task[i].attempt, random))
     ELSE @]

\* the LLM request of record i settles, and Math.random() returns random
\* if the catch block asks for it (lines 462-504, then 558-575)
GroqAttempt(i, r, random) ==
  /\ phase = "running"
  /\ task[i].pc = "groq"
  /\ lastGroq' = [lastGroq EXCEPT ![i] = r]
  /\ GroqContinue(i, GroqSettled(task[i], records[i], AttemptResult(r)))
  /\ sleeps' = GroqSlept(i, GroqSettled(task[i], records[i], AttemptResult(r)), random)
  /\ caught' = [caught EXCEPT ![i] = Caught(@, AttemptResult(r))]
  /\ UNCHANGED <<frontVars, hostGlobals, deployment, db, MAX_RETRIES, RETRY_BASE_DELAY, lastStore, harness, phase, invocation, records, collection, groqCalls,
                 written, validations, pingOk, result>>

\* the same step where Math.random() returns 0
GroqReply(i, r) == GroqAttempt(i, r, 0)

\* variant: the loop of getAiPredictionsWithRetry does not count its attempts
GroqLoopUncounted(t) == [t EXCEPT !.pc = "groq"]

\* variant: after the wait the loop waits again and sends no request
GroqLoopWaiting(t) == [t EXCEPT !.pc = "groqSleep"]

\* the for loop of getAiPredictionsWithRetry after a wait: attempt++, then
\* the next request, or the loop ends and null is returned (lines 458, 506, 558)
GroqLoop(t) ==
  IF LoopEntered(t.attempt + 1) THEN [t EXCEPT !.pc = "groq", !.attempt = @ + 1]
  ELSE Failed("prediction", "Received null predictions from AI service.", "null")

GroqResume(i, nxt) ==
  /\ task' = [task EXCEPT ![i] = nxt]
  /\ groqCalls' = [groqCalls EXCEPT ![i] = IF nxt.pc = "groq" THEN @ + 1 ELSE @]

\* the backoff timer of record i fires inside getAiPredictionsWithRetry (line 500)
GroqBackoffDone(i) ==
  /\ phase = "running"
  /\ task[i].pc = "groqSleep"
  /\ GroqResume(i, GroqLoop(task[i]))
  /\ UNCHANGED <<frontVars, hostGlobals, deployment, db, MAX_RETRIES, RETRY_BASE_DELAY, caught, sleeps, lastStore, harness, unmatched, phase, invocation, records, collection,
                 storeCalls, lastGroq, written, validations, pingOk, result>>

\* variant: the catch block retries while attempt < maxRetries
StoreCatchLate(t, msg) ==
  IF RetryAlways(t.attempt) THEN [t EXCEPT !.pc = "storeSleep"]
  ELSE [Failed("persistence", "All MongoDB operation attempts failed.", msg)
          EXCEPT !.pred = t.pred, !.doc = t.doc, !.key = t.key]

\* the catch block of storeDocumentWithRetry (lines 532-541)
StoreCatch(t, msg) ==
  IF RetryAllowed(t.attempt) THEN [t EXCEPT !.pc = "storeSleep"]
  ELSE [Failed("persistence", "All MongoDB operation attempts failed.", msg)
          EXCEPT !.pred = t.pred, !.doc = t.doc, !.key = t.key]

StoreSettled(t, res) == IF res.ok THEN [t EXCEPT !.pc = "done"] ELSE StoreCatch(t, res.msg)

\* the collection after the store has handled one updateOne (lines 518-522)
Applied(o, id, key, doc) ==
  IF ~o.applied THEN collection
  ELSE IF o.raced THEN Inserted(collection, id, key, doc)
  ELSE UpdateOneUpsert(collection, id, key, doc)

\* the timers of record i after a step of its store call that leaves it at nxt
StoreSlept(i, nxt, random) ==
  [sleeps EXCEPT ![i].store =
     IF nxt.pc = "storeSleep" THEN Append(@, ExponentialBackoffSleep(task[i].attempt, random))
     ELSE @]

\* the updateOne of record i settles, and Math.random() returns random if
\* the catch block asks for it (lines 518-541, then 577-580)
StoreAttempt(i, o, random) ==
  /\ phase = "running"
  /\ task[i].pc = "store"
  /\ written' = [written EXCEPT ![i] = @ \/ o.applied]
  /\ o.raced => unmatched[i] /\ Matching(collection, task[i].key) # {}
  /\ collection' = Applied(o, Cardinality(collection) + 1, task[i].key, task[i].doc)
  /\ task' = [task EXCEPT ![i] = StoreSettled(@, StoreAttemptResult(o))]
  /\ lastStore' = [lastStore EXCEPT ![i] = o.reply]
  /\ sleeps' = StoreSlept(i, StoreSettled(task[i], StoreAttemptResult(o)), random)
  /\ UNCHANGED <<frontVars, hostGlobals, deployment, db, MAX_RETRIES, RETRY_BASE_DELAY, caught, harness, unmatched, phase, invocation, records, groqCalls, storeCalls,
                 lastGroq, validations, pingOk, result>>

\* the same step where Math.random() returns 0
StoreReply(i, o) == StoreAttempt(i, o, 0)

\* variant: after a failed write the record is predicted again
StoreLoopRepredict(t) == [t EXCEPT !.pc = "groq", !.attempt = 0]

\* the for loop of storeDocumentWithRetry after a wait: attempt++, then the
\* next updateOne, or the loop ends and false is returned (lines 512, 543, 577)
StoreLoop(t) ==
  IF LoopEntered(t.attempt + 1) THEN [t EXCEPT !.pc = "store", !.attempt = @ + 1]
  ELSE [Failed("persistence", "Failed to store document in MongoDB after retries", "false")
          EXCEPT !.pred = t.pred, !.doc = t.doc, !.key = t.key]

StoreResume(i, nxt) ==
  /\ task' = [task EXCEPT ![i] = nxt]
  /\ storeCalls' = [storeCalls EXCEPT ![i] = IF nxt.pc = "store" THEN @ + 1 ELSE @]
  /\ unmatched' = Sent(i, nxt)

\* the backoff timer of record i fires inside storeDocumentWithRetry (line 537)
StoreBackoffDone(i) ==
  /\ phase = "running"
  /\ task[i].pc = "storeSleep"
  /\ StoreResume(i, StoreLoop(task[i]))
  /\ UNCHANGED <<frontVars, hostGlobals, deployment, db, MAX_RETRIES, RETRY_BASE_DELAY, caught, sleeps, lastStore, harness, phase, invocation, records, collection,
                 groqCalls, lastGroq, written, validations, pingOk, result>>

\* result.success of processSingleRecord (lines 580, 584)
Success(t) == t.pc = "done"

AllIds == [i \in Ids |-> i]

\* batchItemFailures: the records whose result is not a success (lines
\* 603-605); a rejected promise makes Promise.all throw into the catch of
\* the handler, which reports every record (lines 610-613)
BatchItemFailures ==
  IF \E i \in Ids : task[i].pc = "rejected" THEN AllIds
  ELSE SelectSeq(AllIds, LAMBDA i : ~Success(task[i]))

\* Promise.all has settled: the failures are collected and returned (lines 601-613)
Return ==
  /\ phase = "running"
  /\ \A i \in Ids : Terminal(task[i])
  /\ result' = BatchItemFailures
  /\ phase' = "returned"
  /\ UNCHANGED <<frontVars, hostGlobals, deployment, db, MAX_RETRIES, RETRY_BASE_DELAY, caught, sleeps, lastStore, harness, unmatched, invocation, records, task, collection,
                 groqCalls, storeCalls, lastGroq, written, validations, pingOk>>

\* a caller invokes storeDocumentWithRetry once more with the document and
\* the key of the call that has just finished (lines 509-518)
StoreAgain(i) ==
  /\ phase = "running"
  /\ Terminal(task[i])
  /\ task[i].doc # Null
  /\ harness.calls = 1
  /\ LoopEntered(0)
  /\ harness' = [calls |-> 2, firstOk |-> Success(task[i]), snapshot |-> collection]
  /\ task' = [task EXCEPT ![i] = Running("store", 0, @.pred, @.doc, @.key)]
  /\ storeCalls' = [storeCalls EXCEPT ![i] = @ + 1]
  /\ unmatched' = [unmatched EXCEPT ![i] = Matching(collection, task[i].key) = {}]
  /\ sleeps' = [sleeps EXCEPT ![i].store = <<>>]
  /\ UNCHANGED <<frontVars, hostGlobals, deployment, db, MAX_RETRIES, RETRY_BASE_DELAY, caught, lastStore, phase, invocation, records, collection,
                 groqCalls, lastGroq, written, validations, pingOk, result>>

(***************************************************************************)
(* Specifications.  Spec: one invocation on any batch, tasks interleaved,  *)
(* the store either acknowledges a write or rejects it.                    *)
(***************************************************************************)
Steps(replies, outcomes) ==
  \/ PingFailed
  \/ PingSucceeded
  \/ \E i \in Ids, r \in replies : GroqReply(i, r)
  \/ \E i \in Ids : GroqBackoffDone(i)
  \/ \E i \in Ids, o \in outcomes : StoreReply(i, o)
  \/ \E i \in Ids : StoreBackoffDone(i)
  \/ Return

Next ==
  \/ Load
  \/ \E b \in Batches : Invoke(b)
  \/ Steps(CoreGroqReplies, CoreStoreOutcomes)

Init == InitWith({<<"2">>})

Spec == Init /\ [][Next]_vars

\* SpecFaults: small batches, every store outcome (writes that are applied
\* although the driver reports an error or no acknowledgement)
FaultBatches == UNION {{MakeBatch(q) : q \in SlotBatches(n)} : n \in 1..MaxFaultBatch}

\* a reply that lacks a field and a reply that needs repair
FaultGroqReplies ==
  {GroqContent(Json(Obj(MissingFieldReply))), GroqContent(Json(Obj(FormattedReply)))}

NextFaults ==
  \/ Load
  \/ \E b \in FaultBatches : Invoke(b)
  \/ Steps(FaultGroqReplies, AllStoreOutcomes)

SpecFaults == Init /\ [][NextFaults]_vars

\* SpecPredict: one or two valid records, every kind of LLM reply, and
\* the settings 1, 2 and the default 3 of MAX_RETRIES
PredictBatches == {<<ValidA>>, <<ValidA, ValidB>>}

InitPredict == InitWith({<<"1">>, <<"2">>, DefaultMaxRetries})

NextPredict ==
  \/ Load
  \/ \E b \in PredictBatches : Invoke(b)
  \/ PingSucceeded
  \/ \E i \in Ids, r \in AllGroqReplies : GroqReply(i, r)
  \/ \E i \in Ids : GroqBackoffDone(i)
  \/ Return

SpecPredict == InitPredict /\ [][NextPredict]_vars

\* the LLM replies that pass validation, with different predictions
ValidGroqReplies == {GroqContent(Json(Obj(PlainReply))), GroqContent(Json(Obj(OtherReply)))}

\* SpecRedelivery: successive invocations of the warm function on batches
\* that repeat upsert keys, within a batch and across invocations
RedeliveryBatches == {<<ValidA>>, <<ValidA2>>, <<ValidA, ValidB>>, <<ValidA, ValidA2>>}

NextRedelivery ==
  \/ Load
  \/ \E b \in RedeliveryBatches : Invoke(b)
  \/ \E b \in RedeliveryBatches : Reinvoke(b)
  \/ PingFailed
  \/ PingSucceeded
  \/ \E i \in Ids, r \in ValidGroqReplies : GroqReply(i, r)
  \/ \E i \in Ids, o \in CoreStoreOutcomes : StoreReply(i, o)
  \/ \E i \in Ids : StoreBackoffDone(i)
  \/ Return

SpecRedelivery == Init /\ [][NextRedelivery]_vars

\* SpecStore: storeDocumentWithRetry is called a second time with the same
\* document and key, on a collection that earlier invocations have filled,
\* under every store outcome
StoreBatches == {<<ValidA>>, <<ValidA2>>, <<ValidB>>}

NextStore ==
  \/ Load
  \/ \E b \in StoreBatches : Invoke(b)
  \/ \E b \in StoreBatches : Reinvoke(b)
  \/ PingSucceeded
  \/ \E i \in Ids, r \in ValidGroqReplies : GroqReply(i, r)
  \/ \E i \in Ids, o \in AllStoreOutcomes : StoreReply(i, o)
  \/ \E i \in Ids : StoreBackoffDone(i)
  \/ \E i \in Ids : StoreAgain(i)
  \/ Return

SpecStore == Init /\ [][NextStore]_vars

\* SpecPersist: one or two valid records with a valid prediction, every
\* store outcome, and the settings 1, 2 and the default 3 of MAX_RETRIES
NextPersist ==
  \/ Load
  \/ \E b \in PredictBatches : Invoke(b)
  \/ PingSucceeded
  \/ \E i \in Ids : GroqReply(i, GroqContent(Json(Obj(PlainReply))))
  \/ \E i \in Ids, o \in AllStoreOutcomes : StoreReply(i, o)
  \/ \E i \in Ids : StoreBackoffDone(i)
  \/ Return

SpecPersist == InitPredict /\ [][NextPersist]_vars

\* SpecRepair: one valid record and one attempt, whose reply carries every
\* combination of labels and numeric forms, under either zod release
InitRepair == InitDeployed({<<"1">>}, {Deployed(RequiredEnv, z) : z \in ZodReleases})

NextRepair ==
  \/ Load
  \/ Invoke(<<ValidA>>)
  \/ PingSucceeded
  \/ \E i \in Ids, r \in RepairReplies : GroqReply(i, r)
  \/ \E i \in Ids : StoreReply(i, StoreOutcome(TRUE, "ack"))
  \/ Return

SpecRepair == InitRepair /\ [][NextRepair]_vars

\* SpecConfig: the worker is loaded under every subset of the required
\* configuration and, where it loads, processes small batches
InitConfig == InitDeployed({<<"2">>}, {Deployed(e, "3") : e \in SUBSET RequiredEnv})

NextConfig ==
  \/ Load
  \/ \E b \in FaultBatches : Invoke(b)
  \/ Steps(CoreGroqReplies, CoreStoreOutcomes)

SpecConfig == InitConfig /\ [][NextConfig]_vars

\* SpecLive: one invocation under the scheduling of the event loop: while
\* a request is in flight, a timer is set or a continuation is ready, one
\* of them eventually is answered (with a reply or an error), fires, or runs
LiveBatches == {<<ValidA>>, <<BadRow, ValidA>>, <<ValidA, ValidB>>}

LiveStoreOutcomes ==
  {StoreOutcome(TRUE, "ack"), StoreOutcome(FALSE, "error"), StoreOutcome(FALSE, "unack")}

NextLive ==
  \/ Load
  \/ \E b \in LiveBatches : Invoke(b)
  \/ Steps(CoreGroqReplies, LiveStoreOutcomes)

\* the failing answers of the two kinds of request
Failures == Steps({GroqError("ETIMEDOUT")}, {StoreOutcome(FALSE, "error")})

\* Failures are steps of Steps(replies, outcomes) when the replies and the
\* outcomes hold them: the disjunction is Steps(replies, outcomes)
EventLoop(replies, outcomes) == WF_vars(Failures \/ Steps(replies, outcomes))

SpecLive ==
  InitPredict /\ [][NextLive]_vars /\ EventLoop(CoreGroqReplies, LiveStoreOutcomes)

\* SpecBackoff: the timers of both retry loops of one record, under base
\* delays of half a second, the default second and two seconds, the settings 1, 2 and the
\* default 3 of MAX_RETRIES, and low, middle and high values of Math.random()
BackoffDelays == {<<"0", ".", "5">>, DefaultBaseDelay, <<"2">>}

InitBackoff ==
  InitConfigured({<<"1">>, <<"2">>, DefaultMaxRetries}, BackoffDelays,
                 {Deployed(RequiredEnv, "3")})

NextBackoff ==
  \/ Load
  \/ Invoke(<<ValidA>>)
  \/ PingSucceeded
  \/ \E i \in Ids, r \in CoreGroqReplies, u \in Randoms : GroqAttempt(i, r, u)
  \/ \E i \in Ids : GroqBackoffDone(i)
  \/ \E i \in Ids, o \in LiveStoreOutcomes, u \in Randoms : StoreAttempt(i, o, u)
  \/ \E i \in Ids : StoreBackoffDone(i)
  \/ Return

SpecBackoff == InitBackoff /\ [][NextBackoff]_vars

\* SpecFrame: successive invocations on batches whose records have
\* pairwise different upsert keys (another row, or the same row of another
\* owner; keys repeat from one invocation to the next), with writes that are acknowledged, rejected, or applied although
\* the driver reports an error
FrameBatches == {<<ValidA, ValidB>>, <<ValidA, ValidOwner>>, <<ValidOwner, ValidA2>>}

FrameStoreOutcomes ==
  {StoreOutcome(TRUE, "ack"), StoreOutcome(FALSE, "error"), StoreOutcome(TRUE, "error")}

NextFrame ==
  \/ Load
  \/ \E b \in FrameBatches : Invoke(b)
  \/ \E b \in FrameBatches : Reinvoke(b)
  \/ PingSucceeded
  \/ \E i \in Ids, r \in ValidGroqReplies : GroqReply(i, r)
  \/ \E i \in Ids, o \in FrameStoreOutcomes : StoreReply(i, o)
  \/ \E i \in Ids : StoreBackoffDone(i)
  \/ Return

SpecFrame == Init /\ [][NextFrame]_vars

\* SpecRetries: MAX_RETRIES is set to 0, to a negative number, to text that
\* is no number, to the empty string, or to 2
NoAttemptSettings == {<<"0">>, <<"-", "1">>, <<"a", "b", "c">>, <<>>}

InitRetries == InitWith(NoAttemptSettings \cup {<<"2">>})

NextRetries ==
  \/ Load
  \/ \E b \in LiveBatches : Invoke(b)
  \/ \E b \in LiveBatches : Reinvoke(b)
  \/ Steps(CoreGroqReplies, {StoreOutcome(TRUE, "ack"), StoreOutcome(FALSE, "error")})

SpecRetries == InitRetries /\ [][NextRetries]_vars

\* SpecInit: initializeMongoDB may throw as long as db is not assigned
NextInit ==
  \/ Load
  \/ \E b \in LiveBatches : Invoke(b)
  \/ \E b \in LiveBatches : Reinvoke(b)
  \/ \E b \in LiveBatches : InitializeFailed(b)
  \/ Steps(CoreGroqReplies, {StoreOutcome(TRUE, "ack"), StoreOutcome(FALSE, "error")})

SpecInit == Init /\ [][NextInit]_vars

(***************************************************************************)
(* The import of a sheet by the web backend (routes/authRoutes.js 116-150, *)
(* unnamed/part_003 428-460) and sendBulkImportMessages (middleware/auth.js*)
(* 30-57, unnamed/part_002 49-76).  Headers are strings, cells are char    *)
(* sequences; the sheets of the model have at most two columns.            *)
(***************************************************************************)
\* header?.toString().trim() on the headers of the model's sheets
Trim(header) ==
  IF header = " Project " THEN "Project" ELSE IF header = " " THEN "" ELSE header

ColumnName(i) == IF i = 0 THEN "column_0" ELSE "column_1"

\* the key of column i, from 0: header?.toString().trim() || `column_${i}`
HeaderKey(headers, i) ==
  IF Trim(headers[i + 1]) # "" THEN Trim(headers[i + 1]) ELSE ColumnName(i)

\* row[i] || null
CellOrNull(row, i) ==
  IF i + 1 <= Len(row) /\ row[i + 1] # <<>> THEN Chars(row[i + 1]) ELSE Null

\* headers.forEach assigns the columns from left to right: the last column
\* of a key gives its value
LastColumn(headers, key) ==
  CHOOSE i \in 0..(Len(headers) - 1) :
    /\ HeaderKey(headers, i) = key
    /\ \A j \in 0..(Len(headers) - 1) : HeaderKey(headers, j) = key => j <= i

InputData(headers, row) ==
  [key \in {HeaderKey(headers, i) : i \in 0..(Len(headers) - 1)} |->
     CellOrNull(row, LastColumn(headers, key))]

\* variant: the data rows are numbered from 1
RowIndexFromOne(index) == index + 1

\* row_index: index + 2
RowIndex(index) == index + 2

\* input_data["Project"] || "Unnamed Project"
ProjectOr(data) ==
  IF "Project" \in DOMAIN data /\ data["Project"] # Null THEN data["Project"]
  ELSE Str("Unnamed Project")

\* the callback of dataRows.map
FormattedRow(headers, row, index) ==
  [connectionId |-> Str("c1"), userId |-> Str("u1"), spreadsheet_id |-> Str("sheetA"),
   sheet_range |-> Str("Sheet1!A:Z"), row_index |-> Num(RowIndex(index)),
   project_identifier |-> ProjectOr(InputData(headers, row)), sync_timestamp |-> T1,
   input_data |-> Obj(InputData(headers, row))]

\* headers = rows[0], dataRows = rows.slice(1), formattedData = dataRows.map(...)
FormattedData(values) ==
  [k \in 1..(Len(values) - 1) |-> FormattedRow(values[1], values[k + 1], k - 1)]

\* stringToNumber (utils/validator.js 67-73) followed by z.number(), with
\* .optional().nullable()
IsBlank(cs) == \A k \in 1..Len(cs) : cs[k] = " "

StringToNumber(x) ==
  IF x.t = "string" /\ ~IsBlank(x.chars) /\ ParseFloat(x.chars).k # "NaN"
  THEN ParseFloat(x.chars) ELSE x

OptionalNumber(x) == x.t \in {"undefined", "null"} \/ StringToNumber(x).t = "number"

\* inputDataSchema (utils/validator.js 75-91), for the columns of the model
InputDataSchema(x) ==
  /\ x.t = "object"
  /\ ZString(Get(x.v, "Project"))
  /\ OptionalNumber(Get(x.v, "Allocated Hours"))

\* bulkImportRowSchema.parse(row) does not throw (utils/validator.js 94-103)
BulkImportRowSchema(row) ==
  /\ ZString(row.connectionId) /\ ZString(row.userId) /\ ZString(row.spreadsheet_id)
  /\ ZString(row.sheet_range) /\ row.row_index.t = "number"
  /\ ZString(row.project_identifier) /\ ZDatetime(row.sync_timestamp)
  /\ InputDataSchema(row.input_data)

\* !BULK_IMPORT_QUEUE_URL
Falsy(x) == x.t \in {"undefined", "null"} \/ (x.t = "string" /\ x.v = "")

\* one iteration of the loop of sendBulkImportMessages: the row fails the
\* schema (where rows are validated), or sqsClient.send answers
RowOutcome(row, answer) ==
  IF validatesRows /\ ~BulkImportRowSchema(row) THEN "invalid" ELSE answer

\* variant: the loop ends at the first row that is not sent
StopOnError(outcome, k, n) == IF k = n \/ outcome # "sent" THEN "done" ELSE "sending"

\* the for-of loop goes on to the next row whatever happened to this one
AfterRow(outcome, k, n) == IF k = n THEN "done" ELSE "sending"

\* the background job from the answer of the Sheets API to the first send:
\* no data rows, or formattedData is built and sendBulkImportMessages is
\* called, which throws when the queue URL is not configured
ImportSheet ==
  /\ importPc = "idle"
  /\ formattedData' = IF Len(rows) <= 1 THEN <<>> ELSE FormattedData(rows)
  /\ importPc' = IF Len(rows) <= 1 THEN "done"
                 ELSE IF Falsy(BULK_IMPORT_QUEUE_URL) THEN "threw" ELSE "sending"
  /\ cursor' = 1
  /\ UNCHANGED <<notImport, rows, BULK_IMPORT_QUEUE_URL, validatesRows, attempted, bulkQueue>>

SentRow(k, outcome) ==
  /\ attempted' = Append(attempted, [row |-> k, outcome |-> outcome])
  /\ bulkQueue' = IF outcome = "sent" THEN Append(bulkQueue, formattedData[k]) ELSE bulkQueue
  /\ importPc' = AfterRow(outcome, k, Len(formattedData))

\* the loop handles the row at the cursor
SendRow(answer) ==
  /\ importPc = "sending"
  /\ SentRow(cursor, RowOutcome(formattedData[cursor], answer))
  /\ cursor' = cursor + 1
  /\ UNCHANGED <<notImport, rows, formattedData, BULK_IMPORT_QUEUE_URL, validatesRows>>

\* SpecImport: one import of every sheet of up to MaxRows data rows, with
\* and without a configured queue, with and without row validation
SheetHeaders == {<<"Project", "Allocated Hours">>, <<" Project ", "">>, <<"Vendor">>}

SheetDataRows ==
  { <<<<"Z", "e", "u", "s">>, <<"1", "2">>>>, <<<<"Z", "e", "u", "s">>, <<"n", "/", "a">>>>,
    <<<<>>, <<"1", "2">>>>, <<>> }

RECURSIVE RowSeqs(_)
RowSeqs(n) ==
  IF n = 0 THEN {<<>>}
  ELSE RowSeqs(n - 1) \cup {Append(q, r) : q \in {x \in RowSeqs(n - 1) : Len(x) = n - 1}, r \in SheetDataRows}

Sheets == {<<>>} \cup {<<h>> \o q : h \in SheetHeaders, q \in RowSeqs(MaxRows)}

QueueUrls == {Undefined, Str(""), Str("https://sqs/queue")}

WorkerIdle ==
  WorkerInit({<<"2">>}, {DefaultBaseDelay}, {Deployed(RequiredEnv, "3")}) /\ hostGlobals = FreeIdentifiers

InitImport ==
  /\ WorkerIdle
  /\ ApiIdle
  /\ ScriptIdle
  /\ RetryIdle
  /\ rows \in Sheets
  /\ BULK_IMPORT_QUEUE_URL \in QueueUrls
  /\ validatesRows \in BOOLEAN
  /\ formattedData = <<>>
  /\ importPc = "idle"
  /\ cursor = 0
  /\ attempted = <<>>
  /\ bulkQueue = <<>>

NextImport ==
  \/ ImportSheet
  \/ \E answer \in {"sent", "failed"} : SendRow(answer)

SpecImport == InitImport /\ [][NextImport]_vars

(***************************************************************************)
(* POST /api/update (src/routes/apiRoutes.js 18-27) and sendUpdateMessage  *)
(* (middleware/auth.js 59-74), for the requests that reach the route.      *)
(***************************************************************************)
\* updateSchema.parse(req.body) does not throw (utils/validator.js 54-58)
UpdateSchema(body) ==
  /\ body.t = "object"
  /\ ZString(Get(body.v, "project_identifier"))
  /\ ZDatetime(Get(body.v, "sync_timestamp"))
  /\ InputDataSchema(Get(body.v, "input_data"))

\* variant: an error of the send reaches the catch of the route
SendAnswerStrict(outcome) == IF outcome = "sent" THEN 202 ELSE 400

\* sendUpdateMessage catches the error of the send and returns; the route
\* answers 202 (auth.js 67-73, apiRoutes.js 21-22)
SendAnswer(outcome) == 202

\* the route up to the await of the send: 400 when the schema rejects the
\* body or sendUpdateMessage throws for the missing queue URL
PostUpdate(body) ==
  /\ apiPc = "idle"
  /\ answered < MaxRequests
  /\ updateRequest' = body
  /\ lastSend' = "none"
  /\ IF UpdateSchema(body) /\ ~Falsy(UPDATE_QUEUE_URL)
     THEN apiPc' = "sending" /\ UNCHANGED <<response, answered>>
     ELSE apiPc' = "idle" /\ response' = 400 /\ answered' = answered + 1
  /\ UNCHANGED <<notApi, UPDATE_QUEUE_URL, updateQueue>>

\* sqsClient.send settles and the route answers
UpdateSendSettled(outcome) ==
  /\ apiPc = "sending"
  /\ lastSend' = outcome
  /\ updateQueue' = IF outcome = "sent" THEN Append(updateQueue, updateRequest) ELSE updateQueue
  /\ response' = SendAnswer(outcome)
  /\ answered' = answered + 1
  /\ apiPc' = "idle"
  /\ UNCHANGED <<notApi, UPDATE_QUEUE_URL, updateRequest>>

\* the bodies of the requests of the model
UpdateBody(proj, ts, data) ==
  Obj([project_identifier |-> proj, sync_timestamp |-> ts, input_data |-> data])

UpdateBodies ==
  { UpdateBody(Str("Zeus"), T1, Obj([Project |-> Str("Zeus")])),
    UpdateBody(Str("Zeus"), T2, Obj([Project |-> Str("Zeus"), Vendor |-> Null])),
    UpdateBody(Null, T1, Obj([Project |-> Str("Zeus")])),
    UpdateBody(Str("Zeus"), Str("yesterday"), Obj([Project |-> Str("Zeus")])),
    UpdateBody(Str("Zeus"), T1, Obj([Vendor |-> Str("Acme")])),
    UpdateBody(Str("Zeus"), T1, Null),
    Undefined }

InitApi ==
  /\ WorkerIdle
  /\ ImportIdle
  /\ ScriptIdle
  /\ RetryIdle
  /\ UPDATE_QUEUE_URL \in QueueUrls
  /\ updateRequest = Null
  /\ apiPc = "idle"
  /\ response = 0
  /\ answered = 0
  /\ lastSend = "none"
  /\ updateQueue = <<>>

NextApi ==
  \/ \E body \in UpdateBodies : PostUpdate(body)
  \/ \E outcome \in {"sent", "failed"} : UpdateSendSettled(outcome)

SpecApi == InitApi /\ [][NextApi]_vars

(***************************************************************************)
(* The setup functions of the bound script: setupFromBackend               *)
(* (scripts/script_content.js 2-57), setup (326-380), createTrigger        *)
(* (unnamed/part_011 20-37).  Each stores its parameters, deletes the      *)
(* onSheetEdit triggers of the project and creates one.  The host decides  *)
(* whether a ScriptApp call throws: a run without authorization cannot     *)
(* list the triggers, and create() throws when the project already holds   *)
(* MaxTriggers triggers or the host refuses.                               *)
(***************************************************************************)
HostOutcomes == {"ok", "noSpreadsheet", "noAuthorization", "createFailed"}

\* the triggers whose getHandlerFunction() is fn
CountOf(ts, fn) == Len(SelectSeq(ts, LAMBDA h : h = fn))

\* a delete loop that deletes nothing
KeepTriggers(ts, fn) == ts

\* for (const trigger of allTriggers) if (trigger.getHandlerFunction() === fn)
\*   ScriptApp.deleteTrigger(trigger)
DeleteTriggers(ts, fn) == SelectSeq(ts, LAMBDA h : h # fn)

\* ScriptApp.newTrigger(fn)...create() succeeds
CanCreate(ts, host) == host = "ok" /\ Len(ts) < MaxTriggers

\* the delete loop and the create() that follows it; a throw leaves the
\* project as the calls before it made it
InstallEditTrigger(ts, host) ==
  LET kept == DeleteTriggers(ts, "onSheetEdit")
      n == Len(ts) - Len(kept)
  IN  IF host = "noAuthorization"
        THEN [triggers |-> ts, ok |-> FALSE, deleted |-> 0, created |-> 0]
        ELSE IF ~CanCreate(kept, host)
          THEN [triggers |-> kept, ok |-> FALSE, deleted |-> n, created |-> 0]
          ELSE [triggers |-> Append(kept, "onSheetEdit"), ok |-> TRUE,
                deleted |-> n, created |-> 1]

\* scriptProperties.setProperties({...})
SetProperties(props, new) ==
  [name \in PropertyNames |-> IF name \in DOMAIN new THEN new[name] ELSE props[name]]

Ran(fn, r) == [fn |-> fn, ok |-> r.ok, deleted |-> r.deleted, created |-> r.created]
Threw(fn) == [fn |-> fn, ok |-> FALSE, deleted |-> 0, created |-> 0]

\* setupFromBackend(secret, backendApiUrl, userId)
SetupFromBackend(secret, backendApiUrl, userId, host) ==
  /\ IF Falsy(secret) \/ Falsy(backendApiUrl) \/ Falsy(userId)
       THEN /\ lastRun' = Threw("setupFromBackend")
            /\ UNCHANGED <<triggers, properties>>
       ELSE /\ properties' = SetProperties(properties,
                                 [API_SECRET_TOKEN |-> secret, API_BASE_URL |-> backendApiUrl,
                                  PLATFORM_USER_ID |-> userId])
            /\ IF host = "noSpreadsheet"
                 THEN /\ lastRun' = Threw("setupFromBackend")
                      /\ UNCHANGED triggers
                 ELSE LET r == InstallEditTrigger(triggers, host)
                      IN  /\ triggers' = r.triggers
                          /\ lastRun' = Ran("setupFromBackend", r)
  /\ UNCHANGED <<notScript, requests, edited>>

\* setup(backendApiUrl, userId, connectionId)
Setup(backendApiUrl, userId, connectionId, host) ==
  /\ properties' = SetProperties(properties,
                       [API_BASE_URL |-> backendApiUrl, PLATFORM_USER_ID |-> userId,
                        CONNECTION_ID |-> connectionId])
  /\ IF host = "noSpreadsheet"
       THEN /\ lastRun' = Threw("setup")
            /\ UNCHANGED triggers
       ELSE LET r == InstallEditTrigger(triggers, host)
            IN  /\ triggers' = r.triggers
                /\ lastRun' = Ran("setup", r)
  /\ UNCHANGED <<notScript, requests, edited>>

\* createTrigger()
CreateTrigger(host) ==
  /\ IF host = "noSpreadsheet"
       THEN /\ lastRun' = Threw("createTrigger")
            /\ UNCHANGED triggers
       ELSE LET r == InstallEditTrigger(triggers, host)
            IN  /\ triggers' = r.triggers
                /\ lastRun' = Ran("createTrigger", r)
  /\ UNCHANGED <<notScript, properties, requests, edited>>

SetupFunctions == {"setupFromBackend", "setup", "createTrigger"}

\* the triggers a project can hold before a setup function runs: left by
\* earlier versions of the script, by hand, or by the activation functions
RECURSIVE TriggerLists(_)
TriggerLists(n) ==
  IF n = 0 THEN {<<>>}
  ELSE LET shorter == TriggerLists(n - 1)
       IN  shorter \cup {Append(ts, h) : ts \in {t \in shorter : Len(t) = n - 1},
                                        h \in {"onSheetEdit", "delayedActivation"}}

Secrets == {Undefined, Str("secret")}
BackendUrls == {Str(""), Str("https://backend")}
UserIds == {Undefined, Str("user-1")}

InitSetup ==
  /\ WorkerIdle
  /\ ImportIdle
  /\ ApiIdle
  /\ RetryIdle
  /\ triggers \in TriggerLists(MaxTriggers)
  /\ properties = NoProperties
  /\ lastRun = NoRun
  /\ requests = <<>>
  /\ edited = NoEdit

NextSetup ==
  \/ \E secret \in Secrets, url \in BackendUrls, userId \in UserIds, host \in HostOutcomes :
       SetupFromBackend(secret, url, userId, host)
  \/ \E url \in BackendUrls, host \in HostOutcomes :
       Setup(url, Str("user-1"), Str("conn-1"), host)
  \/ \E host \in HostOutcomes : CreateTrigger(host)

SpecSetup == InitSetup /\ [][NextSetup]_vars

(***************************************************************************)
(* The activation functions of the bound script (unnamed/part_010 2-332):  *)
(* onOpen, doPost, delayedActivation, activateSync, deactivateSync.        *)
(* PropertiesService calls succeed; the host decides whether a ScriptApp   *)
(* call throws (onOpen run as a simple trigger has no authorization).      *)
(***************************************************************************)
True == Str("true")
Timestamp == Str("2025-01-01T00:00:00.000Z")

\* a marking that marks nothing
MarkNothing(props) == props

\* props.setProperty('SYNC_ACTIVATED', 'true');
\* props.setProperty('ACTIVATION_TIMESTAMP', new Date().toISOString())
MarkActivated(props) ==
  [props EXCEPT !["SYNC_ACTIVATED"] = True, !["ACTIVATION_TIMESTAMP"] = Timestamp]

\* props.deleteProperty(name)
DeleteProperty(props, name) == [props EXCEPT ![name] = Null]

\* onOpen(), as a run of its own and as called by activateSync and
\* deactivateSync: the project and the properties it leaves
OnOpenBody(ts, props, host) ==
  IF props["PENDING_ACTIVATION"] = True /\ Falsy(props["SYNC_ACTIVATED"])
    THEN LET r == InstallEditTrigger(ts, host)
         IN  [triggers |-> r.triggers,
              properties |-> IF r.ok
                               THEN DeleteProperty(MarkActivated(props), "PENDING_ACTIVATION")
                               ELSE props,
              ok |-> r.ok, deleted |-> r.deleted, created |-> r.created]
    ELSE [triggers |-> ts, properties |-> props, ok |-> TRUE, deleted |-> 0, created |-> 0]

OnOpen(host) ==
  /\ LET r == OnOpenBody(triggers, properties, host)
     IN  /\ triggers' = r.triggers
         /\ properties' = r.properties
         /\ lastRun' = Ran("onOpen", r)
  /\ UNCHANGED <<notScript, requests, edited>>

\* doPost(e), e.postData.contents holding the configuration
DoPost(secret, backendApiUrl, userId, connectionId, autoActivate, host) ==
  /\ IF Falsy(secret) \/ Falsy(backendApiUrl) \/ Falsy(userId) \/ Falsy(connectionId)
       THEN /\ lastRun' = Threw("doPost")
            /\ UNCHANGED <<triggers, properties>>
       ELSE LET stored == SetProperties(properties,
                            [API_SECRET_TOKEN |-> secret, API_BASE_URL |-> backendApiUrl,
                             PLATFORM_USER_ID |-> userId, CONNECTION_ID |-> connectionId])
                pending == SetProperties(stored,
                             [PENDING_ACTIVATION |-> True, ACTIVATION_REQUESTED_AT |-> Timestamp])
            IN  IF ~autoActivate
                  THEN /\ properties' = stored
                       /\ lastRun' = [NoRun EXCEPT !.fn = "doPost"]
                       /\ UNCHANGED triggers
                  ELSE /\ properties' = pending
                       /\ IF CanCreate(triggers, host)
                            THEN /\ triggers' = Append(triggers, "delayedActivation")
                                 /\ lastRun' = [NoRun EXCEPT !.fn = "doPost"]
                            ELSE /\ lastRun' = Threw("doPost")
                                 /\ UNCHANGED triggers
  /\ UNCHANGED <<notScript, requests, edited>>

\* delayedActivation(), run by the time-based trigger doPost created or by hand
DelayedActivation(host) ==
  /\ IF properties["PENDING_ACTIVATION"] # True
       THEN /\ lastRun' = [NoRun EXCEPT !.fn = "delayedActivation"]
            /\ UNCHANGED <<triggers, properties>>
       ELSE IF properties["SYNC_ACTIVATED"] = True
         THEN /\ properties' = DeleteProperty(properties, "PENDING_ACTIVATION")
              /\ lastRun' = [NoRun EXCEPT !.fn = "delayedActivation"]
              /\ UNCHANGED triggers
         ELSE LET r == InstallEditTrigger(triggers, host)
              IN  /\ lastRun' = Ran("delayedActivation", r)
                  /\ IF r.ok
                       THEN /\ properties' = DeleteProperty(MarkActivated(properties),
                                                            "PENDING_ACTIVATION")
                            /\ triggers' = DeleteTriggers(r.triggers, "delayedActivation")
                       ELSE /\ properties' = [properties EXCEPT
                                                !["DELAYED_ACTIVATION_ERROR"] = Str("Exception")]
                            /\ triggers' = IF host = "noAuthorization"
                                             THEN r.triggers
                                             ELSE DeleteTriggers(r.triggers, "delayedActivation")
  /\ UNCHANGED <<notScript, requests, edited>>

\* activateSync(), from the menu
ActivateSync(host) ==
  /\ IF properties["SYNC_ACTIVATED"] = True
       THEN /\ lastRun' = [NoRun EXCEPT !.fn = "activateSync"]
            /\ UNCHANGED <<triggers, properties>>
       ELSE LET wasPending == properties["PENDING_ACTIVATION"] = True
                cleared == IF wasPending
                             THEN DeleteProperty(properties, "PENDING_ACTIVATION")
                             ELSE properties
                cleaned == IF wasPending /\ host # "noAuthorization"
                             THEN DeleteTriggers(triggers, "delayedActivation")
                             ELSE triggers
                r == InstallEditTrigger(cleaned, host)
                opened == OnOpenBody(r.triggers, MarkActivated(cleared), host)
            IN  /\ lastRun' = Ran("activateSync", r)
                /\ IF r.ok
                     THEN /\ triggers' = opened.triggers
                          /\ properties' = opened.properties
                     ELSE /\ triggers' = r.triggers
                          /\ properties' = cleared
  /\ UNCHANGED <<notScript, requests, edited>>

\* deactivateSync(), from the menu, with the button the user answers
DeactivateSync(button, host) ==
  /\ IF button # "YES"
       THEN /\ lastRun' = [NoRun EXCEPT !.fn = "deactivateSync"]
            /\ UNCHANGED <<triggers, properties>>
       ELSE IF host = "noAuthorization"
         THEN /\ lastRun' = Threw("deactivateSync")
              /\ UNCHANGED <<triggers, properties>>
         ELSE LET kept == DeleteTriggers(triggers, "onSheetEdit")
                  cleared == DeleteProperty(DeleteProperty(properties, "SYNC_ACTIVATED"),
                                            "ACTIVATION_TIMESTAMP")
                  opened == OnOpenBody(kept, cleared, host)
              IN  /\ triggers' = opened.triggers
                  /\ properties' = opened.properties
                  /\ lastRun' = [fn |-> "deactivateSync", ok |-> opened.ok,
                                 deleted |-> Len(triggers) - Len(kept) + opened.deleted,
                                 created |-> opened.created]
  /\ UNCHANGED <<notScript, requests, edited>>

InitActivation ==
  /\ WorkerIdle
  /\ ImportIdle
  /\ ApiIdle
  /\ ScriptIdle
  /\ RetryIdle

NextActivation ==
  \/ \E host \in HostOutcomes : OnOpen(host)
  \/ \E secret \in Secrets, url \in BackendUrls, autoActivate \in BOOLEAN, host \in HostOutcomes :
       DoPost(secret, url, Str("user-1"), Str("conn-1"), autoActivate, host)
  \/ \E host \in HostOutcomes : DelayedActivation(host)
  \/ \E host \in HostOutcomes : ActivateSync(host)
  \/ \E button \in {"YES", "NO"}, host \in HostOutcomes : DeactivateSync(button, host)

SpecActivation == InitActivation /\ [][NextActivation]_vars

(***************************************************************************)
(* onSheetEdit and formatDataForSchema (scripts/script_content.js 140-233) *)
(* for an edit event on a range of rows of the sheet.  A cell is a char    *)
(* sequence, the empty cell is <<>>.  UrlFetchApp.fetch is called with     *)
(* muteHttpExceptions, so an HTTP error status is a response; the host     *)
(* still makes a call throw when the request cannot be made (address       *)
(* unavailable, timeout, quota).                                           *)
(***************************************************************************)
\* row.every(cell => cell === "" || cell === null || cell === undefined)
RowIsEmpty(row) == \A k \in 1..Len(row) : row[k] = <<>>

\* const key = header ? header.toString().trim() : `column_${i}`
EditKey(headers, i) == IF headers[i + 1] # "" THEN Trim(headers[i + 1]) ELSE ColumnName(i)

\* row[i] !== undefined ? row[i] : null
EditCell(row, i) == IF i + 1 <= Len(row) THEN Chars(row[i + 1]) ELSE Null

\* headers.forEach: a key that is '' after the trim gets no entry, and the
\* last column of a key gives its value
EditInputData(headers, row) ==
  LET cols == 0..(Len(headers) - 1)
      last(key) == CHOOSE i \in cols :
                     /\ EditKey(headers, i) = key
                     /\ \A j \in cols : EditKey(headers, j) = key => j <= i
  IN  [key \in {EditKey(headers, i) : i \in cols} \ {""} |-> EditCell(row, last(key))]

CellTruthy(x) == x.t = "string" /\ x.chars # <<>>

\* input_data["Project"] || input_data["project"] || input_data["PROJECT"]
ProjectOf(data) ==
  IF CellTruthy(Get(data, "Project")) THEN Get(data, "Project")
  ELSE IF CellTruthy(Get(data, "project")) THEN Get(data, "project")
  ELSE Get(data, "PROJECT")

\* formatDataForSchema(headers, row, rowIndex, userId); Null is its null
FormatDataForSchema(headers, row, rowIndex, userId) ==
  IF RowIsEmpty(row) THEN Null
  ELSE IF ~CellTruthy(ProjectOf(EditInputData(headers, row))) THEN Null
  ELSE Obj([userId |-> userId, spreadsheet_id |-> Str("sheetA"), sheet_range |-> Str("Sheet1"),
            row_index |-> Num(rowIndex),
            project_identifier |-> ProjectOf(EditInputData(headers, row)),
            sync_timestamp |-> Timestamp, input_data |-> Obj(EditInputData(headers, row))])

\* for (let i = 0; i < numRows; i++) { ... }: the row numbers fetch is called
\* with, from iteration i on, when the call number throwAt (0: none) throws
\* and the catch around the loop ends the run
RECURSIVE EditLoop(_, _, _, _, _, _)
EditLoop(sheet, startRow, numRows, i, userId, throwAt) ==
  IF i >= numRows THEN <<>>
  ELSE LET currentRowNumber == startRow + i
       IN  IF currentRowNumber <= 1
             THEN EditLoop(sheet, startRow, numRows, i + 1, userId, throwAt)
           ELSE IF FormatDataForSchema(sheet[1], sheet[currentRowNumber], currentRowNumber,
                                       userId) = Null
             THEN EditLoop(sheet, startRow, numRows, i + 1, userId, throwAt)
           ELSE IF throwAt = 1
             THEN <<currentRowNumber>>
           ELSE <<currentRowNumber>>
                  \o EditLoop(sheet, startRow, numRows, i + 1, userId,
                              IF throwAt = 0 THEN 0 ELSE throwAt - 1)

\* if (!secretToken || !backendUrl || !userId) return
Configured(props) ==
  /\ ~Falsy(props["API_SECRET_TOKEN"])
  /\ ~Falsy(props["API_BASE_URL"])
  /\ ~Falsy(props["PLATFORM_USER_ID"])

\* onSheetEdit(e) for e.range = numRows rows from startRow (numRows = 0: an
\* event without a range)
OnSheetEdit(startRow, numRows, throwAt) ==
  /\ edited.events < MaxEdits
  /\ startRow + numRows - 1 <= Len(edited.sheet)
  /\ edited' = [edited EXCEPT !.startRow = startRow, !.numRows = numRows,
                              !.before = Len(requests), !.events = @ + 1]
  /\ requests' = IF numRows = 0 \/ ~Configured(properties)
                   THEN requests
                   ELSE requests \o EditLoop(edited.sheet, startRow, numRows, 0,
                                             properties["PLATFORM_USER_ID"], throwAt)
  /\ lastRun' = [NoRun EXCEPT !.fn = "onSheetEdit"]
  /\ UNCHANGED <<notScript, triggers, properties>>

Zeus == <<"Z", "e", "u", "s">>

\* sheets: the header row and the data rows from row 2
EditSheets ==
  { << <<"Project", "Allocated Hours">>, <<Zeus, <<"1", "2">>>>, <<<<>>, <<"1", "2">>>>,
       <<Zeus, <<>>>> >>,
    << <<"Project", "Allocated Hours">>, <<<<>>, <<>>>>, <<Zeus, <<"1", "2">>>> >>,
    << <<" Project ", "">>, <<Zeus, <<"1", "2">>>>, <<Zeus, <<>>>> >>,
    << <<"Vendor">>, <<Zeus>>, <<Zeus>> >>,
    << <<"project", "Project">>, <<Zeus, <<>>>>, <<<<>>, <<>>>>, <<<<>>, Zeus>> >> }

\* the stored configuration: complete, or with one of the three missing
EditConfigs ==
  LET full == SetProperties(NoProperties,
                [API_SECRET_TOKEN |-> Str("secret"), API_BASE_URL |-> Str("https://backend"),
                 PLATFORM_USER_ID |-> Str("user-1")])
  IN  {full} \cup {DeleteProperty(full, name) :
                     name \in {"API_SECRET_TOKEN", "API_BASE_URL", "PLATFORM_USER_ID"}}

InitEdit ==
  /\ WorkerIdle
  /\ ImportIdle
  /\ ApiIdle
  /\ RetryIdle
  /\ triggers = <<"onSheetEdit">>
  /\ properties \in EditConfigs
  /\ lastRun = NoRun
  /\ requests = <<>>
  /\ \E sheet \in EditSheets : edited = [NoEdit EXCEPT !.sheet = sheet]

NextEdit ==
  \E startRow \in 1..Len(edited.sheet), numRows \in 0..Len(edited.sheet),
     throwAt \in 0..Len(edited.sheet) :
    OnSheetEdit(startRow, numRows, throwAt)

SpecEdit == InitEdit /\ [][NextEdit]_vars

(***************************************************************************)
(* retryGoogleAPICall(apiCall, maxRetries, baseDelayMs), one step for each *)
(* settled apiCall() and each elapsed delay; the maxRetries of the call is *)
(* the parameter retries of the starting step.  An error is its code (a    *)
(* number or undefined) and its message (a char sequence or undefined).    *)
(***************************************************************************)
\* String.prototype.includes
Includes(cs, pattern) ==
  \E k \in 0..(Len(cs) - Len(pattern)) : SubSeq(cs, k + 1, k + Len(pattern)) = pattern

\* error.message?.includes(pattern)
MessageIncludes(error, pattern) ==
  error.message.t = "string" /\ Includes(error.message.chars, pattern)

TimeoutWord == <<"t", "i", "m", "e", "o", "u", "t">>
InternalErrorWord == <<"I", "N", "T", "E", "R", "N", "A", "L", "_", "E", "R", "R", "O", "R">>
ServiceUnavailableWord ==
  <<"S", "E", "R", "V", "I", "C", "E", "_", "U", "N", "A", "V", "A", "I", "L", "A", "B", "L", "E">>

\* const isRetryableError = ...
IsRetryableError(error) ==
  \/ error.code.t = "number" /\ error.code.c >= 500 * Scale
  \/ error.code = Num(429)
  \/ MessageIncludes(error, TimeoutWord)
  \/ MessageIncludes(error, InternalErrorWord)
  \/ MessageIncludes(error, ServiceUnavailableWord)

\* the delay of retryOperation: delayMs * (i + 1)
LinearDelay(baseDelayMs, i) == baseDelayMs * (i + 1)

\* const delayMs = baseDelayMs * Math.pow(2, i)
DelayMs(baseDelayMs, i) == baseDelayMs * 2 ^ i

\* the call starts: for (let i = 0; i < maxRetries; i++), and a loop that is
\* not entered returns undefined
RetryGoogleAPICall(retries, baseDelayMs) ==
  /\ retryCall.pc = "idle"
  /\ retryCall' = [pc |-> IF 0 < retries THEN "calling" ELSE "returned",
                   maxRetries |-> retries, baseDelayMs |-> baseDelayMs, i |-> 0]
  /\ apiSettled' = IF 0 < retries THEN Null ELSE [returned |-> Undefined]
  /\ UNCHANGED <<notRetry, apiCalls, apiErrors, apiWaits>>

\* return await apiCall()
ApiCallReturned(value) ==
  /\ retryCall.pc = "calling"
  /\ apiCalls' = apiCalls + 1
  /\ retryCall' = [retryCall EXCEPT !.pc = "returned"]
  /\ apiSettled' = [returned |-> value]
  /\ UNCHANGED <<notRetry, apiErrors, apiWaits>>

\* apiCall() throws: the catch of the loop
ApiCallThrew(error) ==
  /\ retryCall.pc = "calling"
  /\ apiCalls' = apiCalls + 1
  /\ apiErrors' = Append(apiErrors, error)
  /\ IF IsRetryableError(error) /\ retryCall.i < retryCall.maxRetries - 1
       THEN /\ apiWaits' = Append(apiWaits, DelayMs(retryCall.baseDelayMs, retryCall.i))
            /\ retryCall' = [retryCall EXCEPT !.pc = "waiting"]
            /\ UNCHANGED apiSettled
       ELSE /\ retryCall' = [retryCall EXCEPT !.pc = "threw"]
            /\ apiSettled' = [threw |-> error]
            /\ UNCHANGED apiWaits
  /\ UNCHANGED notRetry

\* await delay(delayMs) is over: i++ and the next iteration
DelayElapsed ==
  /\ retryCall.pc = "waiting"
  /\ retryCall' = [retryCall EXCEPT !.i = @ + 1,
                                    !.pc = IF retryCall.i + 1 < retryCall.maxRetries
                                             THEN "calling" ELSE "returned"]
  /\ apiSettled' = IF retryCall.i + 1 < retryCall.maxRetries THEN Null
                   ELSE [returned |-> Undefined]
  /\ UNCHANGED <<notRetry, apiCalls, apiErrors, apiWaits>>

ApiError(code, message) == [code |-> code, message |-> message]

\* the errors of a Google API call: HTTP errors with a numeric code,
\* network errors with a message only
ApiErrors ==
  { ApiError(Num(400), Chars(<<"B", "a", "d">>)),
    ApiError(Num(404), Undefined),
    ApiError(Num(429), Chars(<<"q", "u", "o", "t", "a">>)),
    ApiError(Num(499), Chars(<<"c", "l", "o", "s", "e", "d">>)),
    ApiError(Num(500), Chars(<<"B", "a", "d">>)),
    ApiError(Num(503), Undefined),
    ApiError(Undefined, Chars(<<"a", " ">> \o TimeoutWord)),
    ApiError(Undefined, Chars(<<"T", "i", "m", "e", "o", "u", "t">>)),
    ApiError(Num(400), Chars(InternalErrorWord)),
    ApiError(Undefined, Chars(ServiceUnavailableWord \o <<":", "x">>)),
    ApiError(Undefined, Undefined) }

\* the defaults of the two copies (5 and 3) and the smallest settings
RetrySettings == {0, 1, 2, 3, 5}
BaseDelays == {2000, 500}

InitRetry ==
  /\ WorkerIdle
  /\ ImportIdle
  /\ ApiIdle
  /\ ScriptIdle
  /\ RetryIdle

NextRetry ==
  \/ \E m \in RetrySettings, base \in BaseDelays : RetryGoogleAPICall(m, base)
  \/ \E value \in {Str("response")} : ApiCallReturned(value)
  \/ \E error \in ApiErrors : ApiCallThrew(error)
  \/ DelayElapsed

SpecRetry == InitRetry /\ [][NextRetry]_vars

(***************************************************************************)
(* Properties.                                                             *)
(***************************************************************************)
\* message i is listed in batchItemFailures
InResult(i) == \E k \in DOMAIN result : result[k] = i

\* the handler has returned after a ping that succeeded
ReturnedAfterPing == phase = "returned" /\ pingOk

\* C1 as stated: when the ping succeeds, a message is listed in
\* batchItemFailures if and only if its record was not persisted in this
\* invocation
C1_ListedIffNotPersisted ==
  ReturnedAfterPing => \A i \in Ids : InResult(i) <=> ~written[i]

\* C1, amended: when the ping succeeds, a message is left out of
\* batchItemFailures if and only if its store call returned success; every
\* message left out is persisted, every message that is not persisted is
\* listed, and a listed message is persisted only when it failed at the
\* persistence stage (the store applied a write that the driver reported as
\* an error or as unacknowledged)
C1_ListedIffStoreNotAcknowledged ==
  ReturnedAfterPing =>
    \A i \in Ids :
      /\ InResult(i) <=> ~Success(task[i])
      /\ ~InResult(i) => written[i]
      /\ ~written[i] => InResult(i)
      /\ InResult(i) /\ written[i] => task[i].err.stage = "persistence"

C1_Witness ==
  /\ ReturnedAfterPing
  /\ \E i, j \in Ids :
       /\ Success(task[i]) /\ ~InResult(i)
       /\ InResult(j) /\ written[j]

\* the LLM and the store answered the one request of record i without error
AnsweredCleanly(i) ==
  /\ groqCalls[i] <= 1
  /\ storeCalls[i] <= 1
  /\ task[i].pc = "failed" => task[i].err.stage \notin {"prediction", "persistence"}

\* C2: in a batch of three messages of which only message 2 fails
\* validation (row index -1), messages 1 and 3 are persisted and the
\* result lists only message 2, whatever the interleaving
C2_SiblingsPersisted ==
  /\ ReturnedAfterPing
  /\ records = <<ValidRow(1), BadRow, ValidRow(3)>>
  /\ AnsweredCleanly(1) /\ AnsweredCleanly(3)
  => /\ result = <<2>>
     /\ written[1] /\ written[3]

\* C3: when the ping fails, every message of the batch is listed as
\* failed, and no LLM call, no validation and no store write was made for
\* any of them
C3_DeadStoreFailsAll ==
  phase = "returned" /\ ~pingOk =>
    /\ result = AllIds
    /\ collection = {}
    /\ \A i \in Ids :
         groqCalls[i] = 0 /\ storeCalls[i] = 0 /\ validations[i] = 0 /\ ~written[i]

C3_Witness ==
  /\ phase = "returned" /\ ~pingOk
  /\ Len(records) = MaxBatch
  /\ Len(result) = MaxBatch

\* C4: a message whose body is not JSON or violates the inbound shape is
\* failed at the validation stage; its validation ran at most once, and no
\* LLM call and no store write was made for it; it is listed on return
C4_SchemaRejection ==
  phase \in {"running", "returned"} /\ pingOk =>
    \A i \in Ids :
      records[i] \in ViolatingBodies =>
        /\ task[i].pc = "failed" /\ task[i].err.stage = "validation"
        /\ validations[i] <= 1
        /\ groqCalls[i] = 0 /\ storeCalls[i] = 0 /\ ~written[i]
        /\ phase = "returned" => InResult(i)

C4_Witness ==
  /\ ReturnedAfterPing
  /\ \E i, j \in Ids :
       /\ records[i] = BadRow /\ InResult(i)
       /\ Success(task[j])

\* C5: one call of getAiPredictionsWithRetry sends at most maxRetries
\* requests; it waits for a retry only while fewer than maxRetries were
\* sent; and when it fails, exactly maxRetries requests were sent, all
\* failed, and its error carries the message of the last failure
C5_RetryBound ==
  \A i \in DOMAIN task :
    /\ ~maxRetries.nan
    /\ groqCalls[i] <= maxRetries.n
    /\ task[i].pc = "groqSleep" => groqCalls[i] < maxRetries.n
    /\ task[i].pc = "failed" /\ task[i].err.stage = "prediction" =>
         /\ groqCalls[i] = maxRetries.n
         /\ task[i].err.msg = "All Groq API attempts failed."
         /\ lastGroq[i] # Null
         /\ ~AttemptResult(lastGroq[i]).ok
         /\ task[i].err.last = AttemptResult(lastGroq[i]).msg

C5_Witness ==
  /\ MAX_RETRIES = DefaultMaxRetries
  /\ \E i \in DOMAIN task :
       /\ task[i].pc = "failed" /\ task[i].err.stage = "prediction"
       /\ groqCalls[i] = maxRetries.n
       /\ task[i].err.last = "SyntaxError"

\* the prediction that the reply with currency, plus-minus and percent
\* signs stands for
RepairedFormattedReply ==
  Prediction(Str("Vendor Delay"), Str("Escalation pending"), Num(12345), Num(1200), Num(70))

\* C6: when getAiPredictionsWithRetry has returned a prediction, the last
\* reply received is a JSON object whose repaired form passes
\* AiPredictionSchema, the prediction returned is that repaired and
\* validated object, and no request is in flight or scheduled after it
C6_ReturnsValidatedAttempt ==
  \A i \in DOMAIN task :
    task[i].pred # Null =>
      /\ task[i].pc \notin {"groq", "groqSleep"}
      /\ groqCalls[i] >= 1 /\ groqCalls[i] <= maxRetries.n
      /\ lastGroq[i] # Null
      /\ lastGroq[i].kind = "content"
      /\ lastGroq[i].body.json
      /\ lastGroq[i].body.val.t = "object"
      /\ AiPredictionSchema(Normalize(lastGroq[i].body.val.v))
      /\ task[i].pred = Obj(AiPredictionParsed(Normalize(lastGroq[i].body.val.v)))
      /\ DOMAIN task[i].pred.v = PredictionKeys
      /\ lastGroq[i] = GroqContent(Json(Obj(FormattedReply)))
           => task[i].pred = Obj(RepairedFormattedReply)

C6_Witness ==
  /\ MAX_RETRIES = DefaultMaxRetries
  /\ \E i \in DOMAIN task :
       /\ task[i].pred = Obj(RepairedFormattedReply)
       /\ groqCalls[i] = maxRetries.n

\* the documents of the collection that carry the fields of key
DocsWithKey(key) == {d \in collection : \A f \in DOMAIN key : f \in DOMAIN d /\ d[f] = key[f]}

\* document d carries every field of doc with doc's value
CarriesFields(d, doc) == \A f \in DOMAIN doc : f \in DOMAIN d /\ d[f] = doc[f]

\* C7: after storeDocumentWithRetry has returned true for a document and a
\* key, a second call with the same document and key leaves the collection
\* as the first call left it: one document for the key, carrying the
\* fields of the document
C7_StoreIdempotent ==
  \A i \in DOMAIN task :
    harness.calls = 2 /\ harness.firstOk =>
      /\ collection = harness.snapshot
      /\ Cardinality(DocsWithKey(task[i].key)) = 1
      /\ \A d \in DocsWithKey(task[i].key) : CarriesFields(d, task[i].doc)

C7_Witness ==
  /\ harness.calls = 2 /\ harness.firstOk
  /\ invocation = 2
  /\ Cardinality(collection) = 2
  /\ \E i \in DOMAIN task : Success(task[i]) /\ storeCalls[i] = 2

KeyFields == {"spreadsheet_id", "row_index", "userId"}

SameKey(d, e) == \A f \in KeyFields : d[f] = e[f]

\* C8: the collection holds at most one document per upsert key
\* (spreadsheet id, row index, owner id), in every state reached by any
\* sequence of batches, redeliveries included
C8_OneDocumentPerKey ==
  \A d, e \in collection : SameKey(d, e) => d = e

StoredFields ==
  {"_id", "userId", "spreadsheet_id", "row_index", "project_identifier", "sync_timestamp",
   "source_data", "ai_predictions", "last_processed_at"}

CompletePrediction(x) ==
  /\ x.t = "object"
  /\ DOMAIN x.v = PredictionKeys
  /\ AiPredictionSchema(x.v)

\* C9: an updateOne is sent for a message only after its body passed
\* SqsPayloadSchema and getAiPredictionsWithRetry returned a prediction
\* that passes AiPredictionSchema; every document of the collection has
\* all its fields and a complete, validated prediction
C9_NoPartialRecord ==
  /\ \A d \in collection : DOMAIN d = StoredFields /\ CompletePrediction(d.ai_predictions)
  /\ \A i \in DOMAIN task :
       storeCalls[i] > 0 \/ written[i] =>
         /\ records[i].json /\ SqsPayloadSchema(records[i])
         /\ validations[i] = 1
         /\ lastGroq[i] # Null /\ lastGroq[i].kind = "content"
         /\ CompletePrediction(task[i].pred)
         /\ task[i].doc.ai_predictions = task[i].pred

C9_Witness ==
  /\ collection # {}
  /\ \E i \in DOMAIN task :
       /\ written[i] /\ groqCalls[i] = 2
       /\ task[i].pred = Obj(RepairedFormattedReply)

Stages == {"validation", "prediction", "assembly", "persistence"}

\* C10: no promise of processSingleRecord is ever rejected: an error of
\* any stage becomes the failure of its own message; the handler's result
\* lists exactly the messages that raised an error and no sibling
C10_ErrorsStayLocal ==
  /\ \A i \in DOMAIN task :
       /\ task[i].pc # "rejected"
       /\ task[i].err # Null => task[i].pc = "failed" /\ task[i].err.stage \in Stages
  /\ ReturnedAfterPing =>
       /\ \A i \in Ids : InResult(i) <=> task[i].err # Null
       /\ Len(result) = Cardinality({i \in Ids : task[i].err # Null})

C10_Witness ==
  /\ ReturnedAfterPing
  /\ \E i, j, k \in Ids :
       /\ task[i].pc = "failed" /\ task[i].err.stage = "validation"
       /\ task[j].pc = "failed" /\ task[j].err.stage = "persistence"
       /\ Success(task[k])
       /\ result = <<i, j>>

\* the message of the error that the try block of a store attempt throws
\* for a reply of the driver
StoreErrorOf(reply) ==
  IF reply = "unack" THEN "MongoDB operation not acknowledged" ELSE "MongoNetworkError"

\* C11: one call of storeDocumentWithRetry sends at most maxRetries
\* updateOne requests; it returns true at the first acknowledged reply and
\* sends nothing after it; an error or an unacknowledged reply is a failed
\* attempt; after maxRetries failed attempts it fails with an error that
\* carries the message of the last failure
C11_StoreRetryBound ==
  \A i \in DOMAIN task :
    /\ storeCalls[i] <= maxRetries.n
    /\ task[i].pc = "storeSleep" =>
         storeCalls[i] < maxRetries.n /\ lastStore[i] \in {"error", "unack"}
    /\ task[i].pc = "store" /\ storeCalls[i] > 1 => lastStore[i] \in {"error", "unack"}
    /\ task[i].pc = "done" => lastStore[i] = "ack" /\ storeCalls[i] >= 1
    /\ lastStore[i] = "ack" => task[i].pc = "done"
    /\ task[i].pc = "failed" /\ task[i].err.stage = "persistence" =>
         /\ storeCalls[i] = maxRetries.n
         /\ task[i].err.msg = "All MongoDB operation attempts failed."
         /\ lastStore[i] \in {"error", "unack"}
         /\ task[i].err.last = StoreErrorOf(lastStore[i])

C11_Witness ==
  /\ MAX_RETRIES = DefaultMaxRetries
  /\ \E i, j \in DOMAIN task :
       /\ task[i].pc = "failed" /\ task[i].err.stage = "persistence"
       /\ storeCalls[i] = maxRetries.n
       /\ lastStore[i] = "unack"
       /\ task[j].pc = "done" /\ storeCalls[j] = 2

\* record i has received a reply whose content is a JSON object
ObjectReceived(i) ==
  /\ lastGroq[i] # Null
  /\ lastGroq[i].kind = "content"
  /\ lastGroq[i].body.json
  /\ lastGroq[i].body.val.t = "object"

\* the object of the last reply of record i, as JSON.parse returns it
Raw(i) == lastGroq[i].body.val.v

\* the reply names the burnout field Burnout, with the value "55%"
AliasOnly55(o) ==
  /\ "Burnout" \in DOMAIN o
  /\ "Burnout_Risk" \notin DOMAIN o
  /\ o["Burnout"] = Chars(<<"5", "5", "%">>)

\* C12: a reply with the key Burnout of value "55%" and no key
\* Burnout_Risk is repaired to an object whose Burnout_Risk is 55 and
\* which has no key Burnout, and so is the prediction returned for it
C12_AliasHandling ==
  \A i \in DOMAIN task :
    ObjectReceived(i) /\ AliasOnly55(Raw(i)) =>
      /\ "Burnout" \notin DOMAIN Normalize(Raw(i))
      /\ "Burnout_Risk" \in DOMAIN Normalize(Raw(i))
      /\ Normalize(Raw(i))["Burnout_Risk"] = Num(55)
      /\ task[i].pred # Null =>
           /\ "Burnout" \notin DOMAIN task[i].pred.v
           /\ task[i].pred.v["Burnout_Risk"] = Num(55)

C12_Witness ==
  \E i \in DOMAIN task :
    /\ ObjectReceived(i) /\ AliasOnly55(Raw(i))
    /\ task[i].pc = "done"
    /\ task[i].pred.v["Burnout_Risk"] = Num(55)
    /\ \E d \in collection : d.ai_predictions = task[i].pred

NumericKeys == {"Forecasted_Cost", "Forecasted_Deviation", "Burnout_Risk"}

\* the documented repairs: the string and the number it stands for
DocumentedRepairs ==
  { <<Chars(<<"$", "1", "2", ",", "3", "4", "5">>), Num(12345)>>,
    <<Chars(<<"±", "$", "1", ",", "2", "0", "0">>), Num(1200)>>,
    <<Chars(<<"7", "0", "%">>), Num(70)>> }

\* C13: in whichever of the three numeric fields one of the strings
\* "$12,345", "±$1,200", "70%" appears, the repaired object carries the
\* number 12345, 1200, 70 in that field
C13_RepairAnyField ==
  \A i \in DOMAIN task :
    ObjectReceived(i) =>
      \A f \in NumericKeys \cap DOMAIN Raw(i) :
        \A p \in DocumentedRepairs :
          Raw(i)[f] = p[1] => Normalize(Raw(i))[f] = p[2]

\* the five fields are present, the two labels are strings and the three
\* numbers are finite
FinitePrediction(x) ==
  /\ x.t = "object"
  /\ PredictionKeys \subseteq DOMAIN x.v
  /\ x.v["Risk"].t = "string" /\ x.v["Issues"].t = "string"
  /\ \A f \in NumericKeys : x.v[f].t = "number" /\ x.v[f].k = "finite"

\* C14: every prediction returned by getAiPredictionsWithRetry, and every
\* prediction stored, has its five fields, correctly typed, with finite
\* numbers
C14_FinitePredictions ==
  /\ \A i \in DOMAIN task : task[i].pred # Null => FinitePrediction(task[i].pred)
  /\ \A d \in collection : FinitePrediction(d.ai_predictions)

\* C15: every prediction returned has its risk and its issues among the
\* values of the closed sets, and its burnout risk within 0..100
C15_ClosedSets ==
  \A i \in DOMAIN task :
    task[i].pred # Null =>
      /\ task[i].pred.v["Risk"].v \in PromptRisks
      /\ task[i].pred.v["Issues"].v \in PromptIssues
      /\ task[i].pred.v["Burnout_Risk"].k = "finite"
      /\ task[i].pred.v["Burnout_Risk"].c >= 0
      /\ task[i].pred.v["Burnout_Risk"].c <= 100 * Scale

\* the body of message i, as JSON.parse returns it
Message(i) == records[i].val.v

\* document d is the record of message i: the message's identifying
\* fields, its whole input_data, and the prediction that
\* getAiPredictionsWithRetry returned to processSingleRecord
RecordOf(d, i) ==
  /\ d.spreadsheet_id = Message(i).spreadsheet_id
  /\ d.row_index = Message(i).row_index
  /\ d.project_identifier = Message(i).project_identifier
  /\ d.sync_timestamp = Message(i).sync_timestamp
  /\ d.userId = ObjectId(Message(i).userId)
  /\ d.source_data = Message(i).input_data
  /\ d.ai_predictions = task[i].pred

\* C16: once a write of message i was applied, the collection holds
\* exactly one document with the message's key, and that document carries
\* the message's spreadsheet id, row index, project identifier and sync
\* timestamp, the whole input_data as source_data, and the prediction
\* returned for the message
C16_DocumentContents ==
  \A i \in DOMAIN task :
    written[i] =>
      /\ Cardinality(DocsWithKey(task[i].key)) = 1
      /\ \A d \in DocsWithKey(task[i].key) : RecordOf(d, i)

C16_Witness ==
  \E i \in DOMAIN task :
    /\ Success(task[i])
    /\ \E d \in collection :
         /\ RecordOf(d, i)
         /\ d.ai_predictions = Obj(RepairedFormattedReply)
         /\ d.source_data = SheetRow("Apollo")
         /\ "Notes" \in DOMAIN d.source_data.v

\* C17: a document of the collection is never deleted: in every step,
\* each document present before the step is still present after it, with
\* its _id and its key, whatever batch is processed and whatever fails
C17_NeverDeleted ==
  [][\A d \in collection :
       \E e \in collection' : e["_id"] = d["_id"] /\ SameKey(d, e)]_vars

C17_Witness ==
  /\ invocation = MaxInvocations
  /\ phase = "returned"
  /\ result # <<>>
  /\ \E d \in collection : d.last_processed_at.tick = 1

\* C18: when MONGO_URI, DB_NAME or GROQ_API_KEY is missing, loading the
\* worker aborts and no message is ever processed; and loading aborts for
\* no other reason
C18_OnlyConfigIsFatal ==
  /\ deployment.env # RequiredEnv =>
       phase \in {"unloaded", "loadFailed", "configMissing"} /\ invocation = 0
  /\ phase \in {"loadFailed", "configMissing"} => deployment.env # RequiredEnv

\* the moves of the position of a message: validated (groq, groqSleep),
\* predicted (store, storeSleep), done, failed
StageMoves ==
  { <<"groq", "groqSleep">>, <<"groqSleep", "groq">>, <<"groq", "store">>,
    <<"store", "storeSleep">>, <<"storeSleep", "store">>, <<"store", "done">>,
    <<"groq", "failed">>, <<"groqSleep", "failed">>, <<"store", "failed">>,
    <<"storeSleep", "failed">> }

\* a message that has reached done or failed stays as it is within the invocation
Settled(i) ==
  Terminal(task[i]) =>
    /\ task'[i] = task[i]
    /\ groqCalls'[i] = groqCalls[i]
    /\ storeCalls'[i] = storeCalls[i]
    /\ written'[i] = written[i]

\* C19: a message starts validated or failed; it moves from validated to
\* predicted to done, or to failed, and in no other way; no LLM request is
\* sent before its validation succeeded and no updateOne before a
\* prediction was returned; after done or failed nothing is sent for it
C19_StateMachine ==
  /\ [](\A i \in DOMAIN task :
          /\ groqCalls[i] > 0 => records[i].json /\ SqsPayloadSchema(records[i])
          /\ storeCalls[i] > 0 => groqCalls[i] > 0 /\ task[i].pred # Null
          /\ task[i].pc \in {"store", "storeSleep", "done"} => task[i].pred # Null
          /\ task[i].pc = "done" => storeCalls[i] > 0 /\ written[i])
  /\ [][/\ task = <<>> => \A i \in DOMAIN task' : task'[i].pc \in {"groq", "failed"}
        /\ \A i \in DOMAIN task :
             /\ task'[i].pc = task[i].pc \/ <<task[i].pc, task'[i].pc>> \in StageMoves
             /\ Settled(i)]_vars

C19_Witness ==
  /\ phase = "returned"
  /\ \E i, j \in DOMAIN task :
       /\ task[i].pc = "done" /\ groqCalls[i] = 2 /\ storeCalls[i] = 2
       /\ task[j].pc = "failed" /\ task[j].err.stage = "prediction"

\* C20: within one invocation each message is validated at most once and
\* causes at most maxRetries LLM requests and at most maxRetries updateOne
\* requests; a message that failed is not processed again: nothing is sent
\* for it after the stage at which it failed
C20_NoOrchestratorRetries ==
  /\ [](\A i \in DOMAIN task :
          /\ validations[i] <= 1
          /\ groqCalls[i] <= maxRetries.n
          /\ storeCalls[i] <= maxRetries.n
          /\ task[i].pc = "failed" =>
               /\ task[i].err.stage = "validation" => groqCalls[i] = 0 /\ storeCalls[i] = 0
               /\ task[i].err.stage \in {"prediction", "assembly"} => storeCalls[i] = 0)
  /\ [][\A i \in DOMAIN task :
          task[i].pc = "failed" =>
            /\ task'[i] = task[i]
            /\ validations'[i] = validations[i]
            /\ groqCalls'[i] = groqCalls[i]
            /\ storeCalls'[i] = storeCalls[i]]_vars

C20_Witness ==
  /\ phase = "returned"
  /\ Len(records) = MaxBatch
  /\ \E i, j \in DOMAIN task :
       /\ task[i].pc = "failed" /\ task[i].err.stage = "persistence"
       /\ storeCalls[i] = maxRetries.n /\ groqCalls[i] = maxRetries.n
       /\ task[j].pc = "failed" /\ task[j].err.stage = "validation" /\ validations[j] = 1

\* C21: the handler terminates: when every ping, LLM request and updateOne
\* is eventually answered and every timer fires, an invocation that has
\* started eventually returns its failure list, and from the moment the
\* records are started every one of them eventually reaches done or failed
C21_Terminates ==
  /\ (phase = "pinging") ~> (phase = "returned")
  /\ (phase = "running") ~>
       (DOMAIN task = Ids /\ \A i \in Ids : task[i].pc \in {"done", "failed"})
  /\ [](phase = "returned" /\ pingOk => \A i \in Ids : task[i].pc \in {"done", "failed"})

C21_Witness ==
  /\ phase = "returned"
  /\ MAX_RETRIES = DefaultMaxRetries
  /\ \E i, j \in DOMAIN task :
       /\ task[i].pc = "done" /\ groqCalls[i] = maxRetries.n /\ storeCalls[i] = maxRetries.n
       /\ task[j].pc = "failed" /\ task[j].err.stage = "persistence"

\* the LLM request of record i is in flight
InFlight(i) == task[i].pc = "groq"

\* C22: the attempts of one call of getAiPredictionsWithRetry are
\* sequential: the requests sent are the attempts started, one by one; a
\* further request is sent only by the step in which the backoff timer of
\* the record fires, after the previous request was answered with a
\* failure, so the previous request is never in flight when the next is
\* sent, whatever the other records of the batch are doing
C22_SequentialAttempts ==
  /\ [](\A i \in DOMAIN task :
          /\ task[i].pc \in {"groq", "groqSleep"} => groqCalls[i] = task[i].attempt + 1
          /\ task[i].pc = "groqSleep" =>
               lastGroq[i] # Null /\ ~AttemptResult(lastGroq[i]).ok)
  /\ [][\A i \in DOMAIN task :
          groqCalls'[i] # groqCalls[i] =>
            /\ groqCalls'[i] = groqCalls[i] + 1
            /\ ~InFlight(i)
            /\ task[i].pc = "groqSleep"
            /\ task'[i].pc = "groq" /\ task'[i].attempt = task[i].attempt + 1
            /\ lastGroq'[i] = lastGroq[i]]_vars

C22_Witness ==
  \E i, j \in DOMAIN task :
    /\ i # j
    /\ InFlight(i) /\ task[i].attempt = 2 /\ groqCalls[i] = 3
    /\ InFlight(j) /\ task[j].attempt = 0

\* a timer of ms milliseconds is a wait of at least base_delay * 2^attempt
\* seconds and at most half a second more
WithinBackoff(ms, attempt) ==
  /\ retryBaseDelay.c * 10 * Pow2(attempt) <= ms
  /\ ms <= retryBaseDelay.c * 10 * Pow2(attempt) + 500

\* the waits of one retry loop: the k-th follows failed attempt k - 1,
\* lies within its bounds, and another attempt remains after it
WaitsOf(ws) ==
  /\ Len(ws) <= maxRetries.n - 1 \/ ws = <<>>
  /\ \A k \in DOMAIN ws : WithinBackoff(ws[k], k - 1) /\ k - 1 < maxRetries.n - 1

\* C23: in getAiPredictionsWithRetry and in storeDocumentWithRetry the
\* wait after failed attempt i (from 0) is between base_delay * 2^i and
\* base_delay * 2^i + 0.5 seconds; a timer is set only when another
\* attempt remains (i < maxRetries - 1) and none after the last failed
\* attempt, so a call that exhausts its attempts has waited exactly
\* maxRetries - 1 times and no call waits more often
C23_Backoff ==
  /\ [](\A i \in DOMAIN task :
          /\ WaitsOf(sleeps[i].groq) /\ WaitsOf(sleeps[i].store)
          /\ task[i].pc = "groqSleep" => Len(sleeps[i].groq) = task[i].attempt + 1
          /\ task[i].pc = "storeSleep" => Len(sleeps[i].store) = task[i].attempt + 1
          /\ task[i].pc = "failed" /\ task[i].err.stage = "prediction" =>
               Len(sleeps[i].groq) = maxRetries.n - 1 /\ sleeps[i].store = <<>>
          /\ task[i].pc = "failed" /\ task[i].err.stage = "persistence" =>
               Len(sleeps[i].store) = maxRetries.n - 1)
  /\ [][\A i \in DOMAIN task :
          sleeps'[i] # sleeps[i] =>
            /\ task[i].pc \in {"groq", "store"}
            /\ task'[i].pc \in {"groqSleep", "storeSleep"}
            /\ task[i].attempt < maxRetries.n - 1]_vars

C23_Witness ==
  /\ MAX_RETRIES = DefaultMaxRetries
  /\ RETRY_BASE_DELAY = DefaultBaseDelay
  /\ \E i \in DOMAIN task :
       /\ task[i].pc = "failed" /\ task[i].err.stage = "persistence"
       /\ sleeps[i].groq = <<1250>>
       /\ sleeps[i].store = <<1495, 2000>>

\* the kinds of failed attempt: a transport error, content that is not
\* JSON, an object that fails AiPredictionSchema after repair
FailureKinds == {"transport", "parse", "schema"}

\* getAiPredictionsWithRetry has returned a prediction for record i
Predicted(i) == task[i].pred # Null

\* record i moves as the catch block prescribes for a failed attempt,
\* whatever was caught: a wait before the next attempt while one remains,
\* the failure of the call otherwise
CaughtAlike(i) ==
  /\ caught'[i] # {}
  /\ groqCalls'[i] = groqCalls[i]
  /\ IF task[i].attempt < maxRetries.n - 1
     THEN task'[i] = [task[i] EXCEPT !.pc = "groqSleep"]
     ELSE /\ task'[i].pc = "failed"
          /\ task'[i].err.stage = "prediction"
          /\ task'[i].err.msg = "All Groq API attempts failed."

\* C24: a transport error, content that is not JSON and an object that
\* fails the schema after repair are handled alike: each ends one attempt
\* of the same budget of maxRetries and is followed by the same wait and
\* retry (or by the failure of the call when it was the last attempt); a
\* valid reply to any attempt makes the call return its prediction,
\* whichever kinds of failure came before it
C24_FailuresAlike ==
  /\ [](\A i \in DOMAIN task :
          /\ caught[i] \subseteq FailureKinds \cup {"type"}
          /\ Cardinality(caught[i]) <= groqCalls[i]
          /\ Predicted(i) => Cardinality(caught[i]) <= groqCalls[i] - 1
          /\ task[i].pc = "failed" /\ task[i].err.stage = "prediction" =>
               groqCalls[i] = maxRetries.n /\ caught[i] # {})
  /\ [][\A i \in DOMAIN task :
          task[i].pc = "groq" /\ task'[i] # task[i] =>
            /\ AttemptResult(lastGroq'[i]).ok => Predicted(i)' /\ caught'[i] = caught[i]
            /\ ~AttemptResult(lastGroq'[i]).ok => CaughtAlike(i)]_vars

C24_Witness ==
  /\ MAX_RETRIES = DefaultMaxRetries
  /\ \E i, j \in DOMAIN task :
       /\ Predicted(i) /\ groqCalls[i] = 3 /\ caught[i] = {"transport", "parse"}
       /\ Predicted(j) /\ groqCalls[j] = 3 /\ caught[j] = {"schema", "parse"}

\* document d has the upsert key key
HasKey(d, key) == \A f \in DOMAIN key : f \in DOMAIN d /\ d[f] = key[f]

\* the step handles an updateOne of record i
StoreHandled(i) == task[i].pc = "store" /\ task'[i] # task[i]

\* C25: a step that handles the updateOne of one record leaves every
\* document with a different key as it is and adds or changes only
\* documents of the record's key; and when the records of a batch have
\* pairwise different keys, on return the key of each successful record
\* holds one document, the record of that message written in this
\* invocation, whatever the interleaving
C25_OtherKeysUntouched ==
  /\ [][\A i \in DOMAIN task :
          StoreHandled(i) =>
            /\ \A d \in collection : ~HasKey(d, task[i].key) => d \in collection'
            /\ \A e \in collection' \ collection : HasKey(e, task[i].key)]_vars
  /\ [](ReturnedAfterPing =>
          \A i \in Ids :
            Success(task[i]) =>
              /\ Cardinality(DocsWithKey(task[i].key)) = 1
              /\ \A d \in DocsWithKey(task[i].key) :
                   RecordOf(d, i) /\ d.last_processed_at.tick = invocation)

C25_Witness ==
  /\ ReturnedAfterPing
  /\ invocation = 2
  /\ result = <<>>
  /\ Cardinality(collection) = 2
  /\ task[1].pred # task[2].pred
  /\ \E i \in Ids : storeCalls[i] = 2

\* document d is, field by field, the document that record i wrote
WrittenBy(d, i) == DOMAIN d = DOMAIN task[i].doc \cup {"_id"} /\ CarriesFields(d, task[i].doc)

\* C26: when two records of a batch have the same upsert key and both
\* succeed, on return the collection holds exactly one document of that
\* key, and it is the whole document of one of the two records
C26_SameKeyLastWriteWins ==
  ReturnedAfterPing =>
    \A i, j \in Ids :
      i # j /\ Success(task[i]) /\ Success(task[j]) /\ task[i].key = task[j].key =>
        /\ Cardinality(DocsWithKey(task[i].key)) = 1
        /\ \A d \in DocsWithKey(task[i].key) : WrittenBy(d, i) \/ WrittenBy(d, j)

\* messages i and j agree on the spreadsheet id and on the row index
SameRow(i, j) ==
  /\ Message(i).spreadsheet_id = Message(j).spreadsheet_id
  /\ Message(i).row_index = Message(j).row_index

\* document d is addressed by message i: it has the message's spreadsheet
\* id, row index and owner
Addressed(d, i) ==
  /\ d.spreadsheet_id = Message(i).spreadsheet_id
  /\ d.row_index = Message(i).row_index
  /\ d.userId = ObjectId(Message(i).userId)

\* C27: the upsert key is made of the spreadsheet id, the row index and
\* the owner id: two messages have the same key exactly when they agree
\* on all three; messages of the same row and different owners end in two
\* documents, and a write of one never changes the document of the other;
\* a write of a message whose three fields a document already has changes
\* that document and inserts none
C27_CompositeKey ==
  /\ [](\A i, j \in DOMAIN task :
          /\ task[i].key # Null /\ task[j].key # Null =>
               (task[i].key = task[j].key <=>
                  SameRow(i, j) /\ Message(i).userId = Message(j).userId)
          /\ /\ ReturnedAfterPing /\ Success(task[i]) /\ Success(task[j])
             /\ SameRow(i, j) /\ Message(i).userId # Message(j).userId
             => \E d, e \in collection :
                  d["_id"] # e["_id"] /\ RecordOf(d, i) /\ RecordOf(e, j))
  /\ [][\A i \in DOMAIN task :
          StoreHandled(i) =>
            /\ \A d \in collection : ~Addressed(d, i) => d \in collection'
            /\ (\E d \in collection : Addressed(d, i)) =>
                 {e["_id"] : e \in collection'} = {d["_id"] : d \in collection}]_vars

C27_Witness ==
  /\ ReturnedAfterPing
  /\ invocation = 2
  /\ records = <<ValidOwner, ValidA2>>
  /\ result = <<>>
  /\ Cardinality(collection) = 2
  /\ \E d, e \in collection :
       /\ d.userId # e.userId /\ d.row_index = e.row_index
       /\ d.sync_timestamp = T2 /\ e.sync_timestamp = T1
       /\ d.last_processed_at.tick = 2 /\ e.last_processed_at.tick = 2

\* C28: when MAX_RETRIES is 0, a negative number or no number, no request
\* is sent to the LLM, getAiPredictionsWithRetry returns null (the record
\* fails at prediction with no prediction), no write is sent and the
\* collection stays empty, and a batch whose ping succeeded returns every
\* record as failed
C28_NoAttempts ==
  MAX_RETRIES \in NoAttemptSettings =>
    /\ collection = {}
    /\ \A i \in DOMAIN task :
         /\ groqCalls[i] = 0 /\ storeCalls[i] = 0 /\ ~written[i]
         /\ task[i].pred = Null
         /\ records[i].json /\ SqsPayloadSchema(records[i]) =>
              task[i] = Failed("prediction", "Received null predictions from AI service.", "null")
    /\ ReturnedAfterPing => result = AllIds

C28_Witness ==
  /\ MAX_RETRIES = <<"a", "b", "c">>
  /\ ReturnedAfterPing
  /\ invocation = 2
  /\ records = <<ValidA, ValidB>>
  /\ result = <<1, 2>>
  /\ \A i \in Ids : task[i].err.stage = "prediction" /\ groqCalls[i] = 0

\* C29: when the handler returns without having started the per-message
\* pipeline (initializeMongoDB threw, or the ping failed), or after a
\* rejection of Promise.all, its result lists every record of the batch;
\* when initializeMongoDB threw (db is still not assigned), no request was
\* sent to the LLM or to the store and no document was written
C29_HandlerCatch ==
  /\ phase = "returned" /\ (task = <<>> \/ \E i \in Ids : task[i].pc = "rejected")
     => result = AllIds
  /\ phase = "returned" /\ ~db =>
       /\ result = AllIds
       /\ collection = {}
       /\ \A i \in Ids : groqCalls[i] = 0 /\ storeCalls[i] = 0 /\ ~written[i]

C29_Witness ==
  /\ phase = "returned"
  /\ ~db
  /\ invocation = 2
  /\ records = <<BadRow, ValidA>>
  /\ result = <<1, 2>>
  /\ groqCalls = <<0, 0>>
  /\ collection = {}

\* the reply has the key Burnout and the key Burnout_Risk
BothKeys(o) == "Burnout" \in DOMAIN o /\ "Burnout_Risk" \in DOMAIN o

\* C30: for a reply with both keys the renaming changes nothing, the
\* repaired Burnout_Risk is the reply's own Burnout_Risk (repaired when it
\* is a string) and not its Burnout, and the prediction returned has that
\* Burnout_Risk and no key Burnout
C30_BothKeys ==
  \A i \in DOMAIN task :
    ObjectReceived(i) /\ BothKeys(Raw(i)) =>
      /\ RenameBurnout(Raw(i)) = Raw(i)
      /\ Normalize(Raw(i))["Burnout_Risk"] =
           RepairField(Raw(i), "Burnout_Risk", BurnoutClass)["Burnout_Risk"]
      /\ task[i].pred # Null =>
           /\ "Burnout" \notin DOMAIN task[i].pred.v
           /\ task[i].pred.v["Burnout_Risk"] =
                RepairField(Raw(i), "Burnout_Risk", BurnoutClass)["Burnout_Risk"]

C30_Witness ==
  \E i \in DOMAIN task :
    /\ ObjectReceived(i) /\ BothKeys(Raw(i))
    /\ Raw(i)["Burnout"] = Chars(<<"5", "5", "%">>)
    /\ Raw(i)["Burnout_Risk"] = Chars(<<"7", "0", "%">>)
    /\ task[i].pc = "done"
    /\ task[i].pred.v["Burnout_Risk"] = Num(70)
    /\ DOMAIN task[i].pred.v = PredictionKeys
    /\ \E d \in collection : d.ai_predictions = task[i].pred

\* C31: the data row at position i (from 0) gets the row index i + 2; the
\* row indexes of one import are at least 2 and pairwise distinct, and so
\* are the upsert keys of its messages
C31_RowIndexes ==
  \A i \in DOMAIN formattedData :
    /\ formattedData[i].row_index = Num((i - 1) + 2)
    /\ formattedData[i].row_index.c >= 2 * Scale
    /\ \A j \in DOMAIN formattedData :
         i # j => /\ formattedData[i].row_index # formattedData[j].row_index
                  /\ UpsertKey(formattedData[i]) # UpsertKey(formattedData[j])

C31_Witness ==
  /\ importPc = "done"
  /\ Len(rows) = 4
  /\ Len(formattedData) = 3
  /\ rows[3] = <<>>
  /\ formattedData[3].row_index = Num(4)
  /\ Len(bulkQueue) = 3

\* C32: sendBulkImportMessages handles every row once and in input order:
\* the rows handled so far are the rows before the cursor, a row that is
\* invalid or whose send failed is followed by the next row, the queue
\* holds the rows that were sent in their order, the function returns
\* only after the last row, and it throws only when the queue URL is not
\* configured
C32_EveryRowOnce ==
  /\ \A k \in DOMAIN attempted : attempted[k].row = k
  /\ importPc = "sending" => Len(attempted) = cursor - 1 /\ cursor <= Len(formattedData)
  /\ importPc = "done" => Len(attempted) = Len(formattedData)
  /\ importPc = "threw" <=> importPc # "idle" /\ Len(rows) > 1 /\ Falsy(BULK_IMPORT_QUEUE_URL)
  /\ bulkQueue = [k \in 1..Len(bulkQueue) |->
                   formattedData[SelectSeq(attempted, LAMBDA a : a.outcome = "sent")[k].row]]
  /\ Len(bulkQueue) = Len(SelectSeq(attempted, LAMBDA a : a.outcome = "sent"))

C32_Witness ==
  /\ importPc = "done"
  /\ validatesRows
  /\ Len(attempted) = 3
  /\ attempted[1].outcome = "failed"
  /\ attempted[2].outcome = "invalid"
  /\ attempted[3].outcome = "sent"
  /\ bulkQueue = <<formattedData[3]>>

\* a request has been answered and none is being handled
Answered == apiPc = "idle" /\ answered > 0

\* C33: the route answers 202 exactly when the body passes updateSchema
\* and UPDATE_QUEUE_URL is configured, whether the send succeeded or
\* failed, and 400 exactly when the schema rejects the body or the URL is
\* missing; a send is made only for a request that is answered 202
C33_UpdateAnswers ==
  Answered =>
    /\ response \in {202, 400}
    /\ response = 202 <=> UpdateSchema(updateRequest) /\ ~Falsy(UPDATE_QUEUE_URL)
    /\ response = 400 <=> ~UpdateSchema(updateRequest) \/ Falsy(UPDATE_QUEUE_URL)
    /\ lastSend # "none" => response = 202

C33_Witness ==
  /\ Answered
  /\ answered = 3
  /\ response = 202
  /\ lastSend = "failed"
  /\ updateQueue = <<>>

\* C34: a successful run of a setup function (setupFromBackend, setup,
\* createTrigger) deletes every onSheetEdit trigger the project held and
\* leaves exactly one, so after any sequence of successful runs exactly one
\* onSheetEdit trigger exists.
C34_OneEditTrigger ==
  [][(lastRun'.fn \in SetupFunctions /\ lastRun'.ok)
       => /\ lastRun'.deleted = CountOf(triggers, "onSheetEdit")
          /\ lastRun'.created = 1
          /\ CountOf(triggers', "onSheetEdit") = 1
          /\ DeleteTriggers(triggers', "onSheetEdit") = DeleteTriggers(triggers, "onSheetEdit")]_vars

\* a successful setup run has replaced two onSheetEdit triggers by one
C34_Witness ==
  /\ lastRun.fn = "setup"
  /\ lastRun.ok
  /\ lastRun.deleted = 2
  /\ CountOf(triggers, "onSheetEdit") = 1
  /\ CountOf(triggers, "delayedActivation") = 1

\* sync is marked active in the script properties
SyncActivated == properties["SYNC_ACTIVATED"] = True

\* C35: in every state reached by runs of onOpen, doPost,
\* delayedActivation, activateSync and deactivateSync the project holds at
\* most one onSheetEdit trigger, SYNC_ACTIVATED is 'true' exactly when it
\* holds one, and a run that finds sync already active leaves the project
\* with no more onSheetEdit triggers than it found.
C35_FlagMatchesTrigger ==
  /\ [](/\ CountOf(triggers, "onSheetEdit") <= 1
        /\ SyncActivated <=> CountOf(triggers, "onSheetEdit") = 1)
  /\ [][SyncActivated
          => /\ CountOf(triggers', "onSheetEdit") <= CountOf(triggers, "onSheetEdit")
             /\ lastRun'.fn # "deactivateSync" => lastRun'.created = 0]_vars

\* activateSync has run while sync was active, after a delayed activation
\* was scheduled, and the project holds one onSheetEdit trigger
C35_Witness ==
  /\ lastRun.fn = "activateSync"
  /\ lastRun.created = 0
  /\ SyncActivated
  /\ properties["PENDING_ACTIVATION"] = True
  /\ CountOf(triggers, "onSheetEdit") = 1
  /\ CountOf(triggers, "delayedActivation") = 1

\* row r of the sheet is below the header, not empty and has a Project
Syncable(sheet, r) ==
  /\ r > 1
  /\ ~RowIsEmpty(sheet[r])
  /\ CellTruthy(ProjectOf(EditInputData(sheet[1], sheet[r])))

\* the rows of the last edited range, in row order, that qualify
RECURSIVE SyncableRows(_, _, _)
SyncableRows(sheet, r, last) ==
  IF r > last THEN <<>>
  ELSE (IF Syncable(sheet, r) THEN <<r>> ELSE <<>>) \o SyncableRows(sheet, r + 1, last)

\* the requests of the last edit event
Issued == SubSeq(requests, edited.before + 1, Len(requests))

\* C36: after an edit event the requests it issued are none
\* when the token, the backend URL or the user id is missing, and otherwise
\* one for each row of the range that is below the header, not empty and
\* has a Project, in row order.
C36_OnePerSyncableRow ==
  edited.events > 0
    => Issued = IF edited.numRows = 0 \/ ~Configured(properties) THEN <<>>
                ELSE SyncableRows(edited.sheet, edited.startRow,
                                  edited.startRow + edited.numRows - 1)

\* the errors of the model with code 429 or a code of at least 500, or with
\* a message that contains timeout, INTERNAL_ERROR or SERVICE_UNAVAILABLE
Retryable(error) ==
  error \in {ApiError(Num(429), Chars(<<"q", "u", "o", "t", "a">>)),
             ApiError(Num(500), Chars(<<"B", "a", "d">>)),
             ApiError(Num(503), Undefined),
             ApiError(Undefined, Chars(<<"a", " ">> \o TimeoutWord)),
             ApiError(Num(400), Chars(InternalErrorWord)),
             ApiError(Undefined, Chars(ServiceUnavailableWord \o <<":", "x">>))}

\* C37: retryGoogleAPICall calls apiCall at most maxRetries times; every
\* error before the last call was retryable and was followed by a wait of
\* baseDelayMs * 2^i; it returns the result of the first call that succeeds,
\* throws a non-retryable error at once, and throws the last error when a
\* retryable error occurs on call number maxRetries.
C37_RetrySchedule ==
  LET done == retryCall.pc \in {"returned", "threw"}
      failed == Len(apiErrors)
  IN  /\ apiCalls <= retryCall.maxRetries
      /\ failed <= apiCalls /\ apiCalls <= failed + 1
      /\ Len(apiWaits) = IF retryCall.pc = "threw" THEN failed - 1
                         ELSE IF retryCall.pc = "calling" THEN apiCalls ELSE failed
      /\ \A k \in 1..Len(apiWaits) :
           /\ Retryable(apiErrors[k])
           /\ apiWaits[k] = retryCall.baseDelayMs * 2 ^ (k - 1)
      /\ retryCall.pc = "returned" /\ retryCall.maxRetries > 0
           => /\ apiSettled = [returned |-> Str("response")]
              /\ apiCalls = failed + 1
      /\ retryCall.pc = "threw"
           => /\ apiSettled = [threw |-> apiErrors[failed]]
              /\ apiCalls = failed
              /\ ~Retryable(apiErrors[failed]) \/ apiCalls = retryCall.maxRetries
      /\ retryCall.pc = "waiting" => apiCalls < retryCall.maxRetries
      /\ done <=> apiSettled # Null

\* a call with maxRetries = 5 has thrown the retryable error of its fifth
\* call after four waits
C37_Witness ==
  /\ retryCall.pc = "threw"
  /\ retryCall.maxRetries = 5
  /\ apiCalls = 5
  /\ apiWaits = <<2000, 4000, 8000, 16000>>
  /\ apiSettled = [threw |-> ApiError(Num(503), Undefined)]

====
